---- MODULE Spec2Model ----
(***************************************************************************)
(* Redemption pipeline of the tBTC v2 TypeScript client.                   *)
(*                                                                         *)
(*   typescript/src/redemption.ts   makeRedemptions, fetchRedemptionRequests,*)
(*                                  createRedemptionTransaction             *)
(*   unnamed/part_002               EthereumBridge (the ledger gateway)     *)
(*                                                                         *)
(* A redemption cycle is one run of makeRedemptions.  Its position (pc)    *)
(* advances at the places where the code awaits a collaborator and at the  *)
(* steps of the transaction builder.  Byte strings are sequences of bytes; *)
(* hashes are symbolic (injective) records of their pre-image.             *)
(***************************************************************************)
EXTENDS Integers, Sequences, FiniteSets, TLC

VARIABLES
    input,              \* [cycle -> arguments of makeRedemptions]
    pc,                 \* [cycle -> position in makeRedemptions]
    mainUtxoWithRaw,    \* [cycle -> <<>> or <<main UTXO with its raw transaction>>]
    redemptionRequests, \* [cycle -> requests collected by fetchRedemptionRequests]
    call,               \* [cycle -> retry state of the ledger call in flight]
    pendingRedemption,  \* [cycle -> <<>> or <<value the gateway returned last>>]
    builder,            \* [cycle -> the bcoin MTX under construction and the running totals]
    transaction,        \* [cycle -> <<>> or <<value createRedemptionTransaction returned>>]
    error,              \* [cycle -> message of the error thrown to the caller, "" if none]
    gatewayCalls,       \* [cycle -> the Bridge.pendingRedemptions invocations, in order]
    bitcoinCalls,       \* [cycle -> the BitcoinClient invocations, in order]
    ledger,             \* the ledger's pendingRedemptions mapping, as far as it was read
    sent,               \* [cycle -> the transactions and reads the remote ledger received, in order]
    difficultyFactor,   \* the ledger's txProofDifficultyFactor parameter
    revealed,           \* the deposits the ledger holds as revealed
    chainConfirmations, \* confirmations the Bitcoin chain holds for the proven transaction
    confirmations,      \* [cycle -> <<>> or <<depth proveRedemption read>>]
    proof,              \* [cycle -> <<>> or <<proof createTransactionProof returned>>]
    rawTransaction,     \* [cycle -> <<>> or <<raw transaction proveRedemption fetched>>]
    result,             \* [cycle -> <<>> or <<value the operation returned>>]
    history,            \* the runs of the cycle that ended, oldest first
    events,             \* the ledger's event log, oldest first
    accounts,           \* the accounts of the Solana tbtc program
    minted              \* sum of the amounts of the mints that succeeded

\* State of the redemption cycle only
redemptionVars == <<mainUtxoWithRaw, redemptionRequests, pendingRedemption, builder,
                    transaction, gatewayCalls, ledger>>

\* State of the gateway's other operations and of proveRedemption only
gatewayVars == <<sent, difficultyFactor, revealed, chainConfirmations, confirmations,
                 proof, rawTransaction, result, history>>

\* State of the ledger's event log only
eventVars == <<events>>

\* State of the Solana tbtc program only
solanaVars == <<accounts, minted>>

vars == <<input, pc, mainUtxoWithRaw, redemptionRequests, call, pendingRedemption,
          builder, transaction, error, gatewayCalls, bitcoinCalls, ledger, sent,
          difficultyFactor, revealed, chainConfirmations, confirmations, proof,
          rawTransaction, result, history, events, accounts, minted>>

Cycles == DOMAIN pc

----------------------------------------------------------------------------
(* Bounds of the model *)

\* longest list of redeemer output scripts handed to makeRedemptions
MaxRequests == 2
\* the gateway's configured number of attempts (this._totalRetryAttempts)
totalRetryAttempts == 3
\* largest requestedAmount a ledger record holds, in satoshi
MaxAmount == 3
\* largest value of the funding UTXO, in satoshi
MaxFunding == 4

\* txMaxFee and treasuryFee values of the ledger's records
FeeValues == {0, 1}
\* requestedAt values: 0 marks a record that does not exist
RequestedAtValues == {0, 1}
\* redeemer output scripts, un-prefixed
RedeemerOutputScripts == {<<118>>, <<0, 20>>}
TransactionHashes == {<<171, 205>>}
OutputIndexes == {1}
WalletPrivateKeys == {"walletWIF"}
\* errors of the remote ledger's RPC endpoint
RpcErrors == {"rpc timeout", "connection reset"}
\* errors of the Bitcoin data source
BitcoinErrors == {"electrum unavailable"}

\* The worked example of the builder: one request against 100,000 satoshi.
ExampleRequest ==
    [redeemer |-> "0xredeemer", requestedAmount |-> 50000, treasuryFee |-> 100,
     txMaxFee |-> 400, requestedAt |-> 1]

\* What the ledger's pendingRedemptions(key) can hold (RedemptionRequestTypechain).
LedgerRecords ==
    [redeemer : {"0xredeemer"}, requestedAmount : 1 .. MaxAmount,
     treasuryFee : FeeValues, txMaxFee : FeeValues, requestedAt : RequestedAtValues]
        \cup {ExampleRequest}

\* Values of the main UTXO, in satoshi; 100,000 is the worked example's.
FundingValues == (1 .. MaxFunding) \cup {100000}

SeqsUpTo(S, n) == UNION {[1 .. k -> S] : k \in 0 .. n}

ErrNoRequests == "There must be at least one request to redeem"
ErrNotPending ==
    "Provided redeemer output script and wallet public key do not identify a pending redemption"
ErrOutputValue == "Value must be a uint64."
ErrFunding == "Not enough funds."

----------------------------------------------------------------------------
(* Keys and hashes *)

computeHash160(bytes) == [hash160 |-> bytes]

solidityKeccak256(packed) == [keccak256 |-> packed]

\* createKeyRing(walletPrivateKey, witness)
createKeyRing(walletPrivateKey, witness) ==
    [privateKey |-> walletPrivateKey, witness |-> witness]

getPublicKey(keyRing) == [publicKeyOf |-> keyRing.privateKey]

\* walletKeyRing.getAddress("string"): P2WPKH if witness, P2PKH otherwise
getAddress(keyRing) ==
    [type |-> IF keyRing.witness THEN "p2wpkh" ELSE "p2pkh",
     hash |-> computeHash160(getPublicKey(keyRing))]

\* Buffer.from([n]) keeps the low 8 bits of n
LengthByte(script) == Len(script) % 256

\* Faulty variant: the wallet hash is packed first, the script digest second.
buildRedemptionKeyHashFirst(walletPublicKeyHash, redeemerOutputScript) ==
    solidityKeccak256(
        <<walletPublicKeyHash,
          solidityKeccak256(<<LengthByte(redeemerOutputScript)>>
                              \o redeemerOutputScript)>>)

\* Faulty variant: the two inputs are combined regardless of their order.
buildRedemptionKeyUnordered(walletPublicKeyHash, redeemerOutputScript) ==
    solidityKeccak256({walletPublicKeyHash, redeemerOutputScript})

\* EthereumBridge.buildRedemptionKey: keccak256 of the packed pair (bytes32
\* digest of the length-prefixed script, bytes20 wallet public key hash)
buildRedemptionKey(walletPublicKeyHash, redeemerOutputScript) ==
    solidityKeccak256(
        <<solidityKeccak256(<<LengthByte(redeemerOutputScript)>>
                              \o redeemerOutputScript),
          walletPublicKeyHash>>)

\* EthereumBridge.parseRedemptionRequest
parseRedemptionRequest(request, redeemerOutputScript) ==
    [redeemer |-> request.redeemer,
     redeemerOutputScript |-> redeemerOutputScript,
     requestedAmount |-> request.requestedAmount,
     treasuryFee |-> request.treasuryFee,
     txMaxFee |-> request.txMaxFee,
     requestedAt |-> request.requestedAt]

----------------------------------------------------------------------------
(* Collaborators *)

\* The transaction the Bitcoin network holds under the main UTXO's hash: the
\* UTXO is a snapshot of one of its outputs.
BitcoinTransaction(utxo) ==
    [hash |-> utxo.transactionHash,
     outputs |-> [i \in {utxo.outputIndex} |-> utxo.value]]

\* bcoin.Coin.fromTX(bcoin.MTX.fromRaw(transactionHex, "hex"), outputIndex, -1)
CoinFromTX(tx, outputIndex) ==
    [hash |-> tx.hash, index |-> outputIndex, value |-> tx.outputs[outputIndex]]

\* bcoin.Script.fromRaw(Buffer.from(redeemerOutputScript, "hex"))
ScriptFromRaw(redeemerOutputScript) == [raw |-> redeemerOutputScript]

\* bcoin.Script.fromAddress(walletAddress)
ScriptFromAddress(walletAddress) == [address |-> walletAddress]

\* new bcoin.MTX()
NewMTX == [inputs |-> <<>>, outputs |-> <<>>, signed |-> FALSE]

NewBuilder == [transaction |-> NewMTX, txTotalFee |-> 0, totalOutputsValue |-> 0]

\* The retrier's state: the errors of the attempts made so far, in order.
NoCall == [attempts |-> 0, errors |-> <<>>]

\* BitcoinTxHash.reverse(): the bytes in the opposite order
Reverse(bytes) == [k \in 1 .. Len(bytes) |-> bytes[Len(bytes) + 1 - k]]

Sum(f) ==
    LET RECURSIVE S(_)
        S(k) == IF k = 0 THEN 0 ELSE f[k] + S(k - 1)
    IN S(Len(f))

OutputsValue(tx) == Sum([k \in 1 .. Len(tx.outputs) |-> tx.outputs[k].value])

----------------------------------------------------------------------------
(* Initial state: one cycle about to run makeRedemptions *)

InitialCycles == {1}

MakeRedemptionsInputs ==
    [walletPrivateKey : WalletPrivateKeys,
     mainUtxo : [transactionHash : TransactionHashes, outputIndex : OutputIndexes,
                 value : FundingValues],
     redeemerOutputScripts : SeqsUpTo(RedeemerOutputScripts, MaxRequests),
     witness : BOOLEAN]

Init ==
    /\ input \in [InitialCycles -> MakeRedemptionsInputs]
    /\ pc = [c \in InitialCycles |-> "getRawTransaction"]
    /\ mainUtxoWithRaw = [c \in InitialCycles |-> <<>>]
    /\ redemptionRequests = [c \in InitialCycles |-> <<>>]
    /\ call = [c \in InitialCycles |-> NoCall]
    /\ pendingRedemption = [c \in InitialCycles |-> <<>>]
    /\ builder = [c \in InitialCycles |-> NewBuilder]
    /\ transaction = [c \in InitialCycles |-> <<>>]
    /\ error = [c \in InitialCycles |-> ""]
    /\ gatewayCalls = [c \in InitialCycles |-> <<>>]
    /\ bitcoinCalls = [c \in InitialCycles |-> <<>>]
    /\ ledger = <<>>
    /\ sent = [c \in InitialCycles |-> <<>>]
    /\ difficultyFactor = 0
    /\ revealed = {}
    /\ chainConfirmations = 0
    /\ confirmations = [c \in InitialCycles |-> <<>>]
    /\ proof = [c \in InitialCycles |-> <<>>]
    /\ rawTransaction = [c \in InitialCycles |-> <<>>]
    /\ result = [c \in InitialCycles |-> <<>>]
    /\ history = <<>>
    /\ events = <<>>
    /\ accounts = <<>>
    /\ minted = 0

----------------------------------------------------------------------------
(* makeRedemptions: the raw transaction of the main UTXO *)

Fail(c, message) ==
    /\ pc' = [pc EXCEPT ![c] = "failed"]
    /\ error' = [error EXCEPT ![c] = message]

\* const rawTransaction = await bitcoinClient.getRawTransaction(mainUtxo.transactionHash)
GetRawTransaction(c) ==
    /\ pc[c] = "getRawTransaction"
    /\ bitcoinCalls' = [bitcoinCalls EXCEPT ![c] =
           Append(@, [op |-> "getRawTransaction",
                      arg |-> input[c].mainUtxo.transactionHash])]
    /\ \/ /\ mainUtxoWithRaw' = [mainUtxoWithRaw EXCEPT ![c] =
                 <<[transactionHash |-> input[c].mainUtxo.transactionHash,
                    outputIndex |-> input[c].mainUtxo.outputIndex,
                    value |-> input[c].mainUtxo.value,
                    transactionHex |-> BitcoinTransaction(input[c].mainUtxo)]>>]
          /\ pc' = [pc EXCEPT ![c] = "fetchRedemptionRequests"]
          /\ UNCHANGED error
       \/ /\ \E e \in BitcoinErrors : Fail(c, e)
          /\ UNCHANGED mainUtxoWithRaw
    /\ UNCHANGED <<input, redemptionRequests, call, pendingRedemption, builder,
                   transaction, gatewayCalls, ledger>>
    /\ UNCHANGED gatewayVars
    /\ UNCHANGED eventVars
    /\ UNCHANGED solanaVars

----------------------------------------------------------------------------
(* fetchRedemptionRequests and the gateway's pendingRedemptions *)

\* walletPubKeyHash = hash160.digest(Buffer.from(walletPublicKey, "hex"))
WalletPubKeyHash(walletPrivateKey) ==
    computeHash160(getPublicKey(createKeyRing(walletPrivateKey, FALSE)))

\* EthereumBridge.pendingRedemptions derives the key from its two arguments
PendingRedemptionsKey(walletPublicKey, redeemerOutputScript) ==
    buildRedemptionKey(computeHash160(walletPublicKey), redeemerOutputScript)

\* The head of the loop over redeemerOutputScripts: the next script is handed
\* to bridge.pendingRedemptions, or the collected list is returned.
FetchNext(c) ==
    /\ pc[c] = "fetchRedemptionRequests"
    /\ LET scripts == input[c].redeemerOutputScripts
           k == Len(redemptionRequests[c]) + 1
       IN IF k <= Len(scripts)
          THEN /\ gatewayCalls' = [gatewayCalls EXCEPT ![c] =
                      Append(@, [walletPublicKey |->
                                     WalletPubKeyHash(input[c].walletPrivateKey),
                                 redeemerOutputScript |-> scripts[k],
                                 redemptionKey |->
                                     PendingRedemptionsKey(
                                         WalletPubKeyHash(input[c].walletPrivateKey),
                                         scripts[k])])]
               /\ call' = [call EXCEPT ![c] = NoCall]
               /\ pc' = [pc EXCEPT ![c] = "pendingRedemptions"]
          ELSE /\ pc' = [pc EXCEPT ![c] = "createRedemptionTransaction"]
               /\ UNCHANGED <<gatewayCalls, call>>
    /\ pendingRedemption' = [pendingRedemption EXCEPT ![c] = <<>>]
    /\ UNCHANGED <<input, mainUtxoWithRaw, redemptionRequests, builder, transaction,
                   error, bitcoinCalls, ledger>>
    /\ UNCHANGED gatewayVars
    /\ UNCHANGED eventVars
    /\ UNCHANGED solanaVars

\* The invocation of bridge.pendingRedemptions that is in flight.
CurrentCall(c) == gatewayCalls[c][Len(gatewayCalls[c])]

\* Faulty variant: one attempt more than configured.
PendingRedemptionsRetriesPlusOne == totalRetryAttempts + 1

\* Number of attempts EthereumBridge.pendingRedemptions hands to backoffRetrier
PendingRedemptionsRetries == totalRetryAttempts

\* backoffRetrier(retries): whether another attempt follows a failed one
RetryAgain(retries, attemptsMade) == attemptsMade < retries

\* backoffRetrier(retries): the error surfaced once the attempts are used up
SurfacedError(lastError) == lastError

\* One attempt of the wrapped call this._instance.pendingRedemptions(redemptionKey),
\* answered by the ledger.
PendingRedemptionsSucceeds(c) ==
    /\ pc[c] = "pendingRedemptions"
    /\ LET key == CurrentCall(c).redemptionKey
       IN \E request \in LedgerRecords :
            /\ key \in DOMAIN ledger => request = ledger[key]
            /\ ledger' = (key :> request) @@ ledger
            /\ pendingRedemption' = [pendingRedemption EXCEPT ![c] =
                   <<parseRedemptionRequest(request,
                                            CurrentCall(c).redeemerOutputScript)>>]
    /\ call' = [call EXCEPT ![c] = NoCall]
    /\ pc' = [pc EXCEPT ![c] = "checkPendingRedemption"]
    /\ UNCHANGED <<input, mainUtxoWithRaw, redemptionRequests, builder, transaction,
                   error, gatewayCalls, bitcoinCalls>>
    /\ UNCHANGED gatewayVars
    /\ UNCHANGED eventVars
    /\ UNCHANGED solanaVars

\* One attempt of the wrapped call that fails: retried after the backoff, or,
\* on the last attempt, thrown to the caller.
PendingRedemptionsFails(c) ==
    /\ pc[c] = "pendingRedemptions"
    /\ \E e \in RpcErrors :
         LET made == call[c].attempts + 1
         IN /\ call' = [call EXCEPT ![c] =
                   [attempts |-> made, errors |-> Append(@.errors, e)]]
            /\ IF RetryAgain(PendingRedemptionsRetries, made)
               THEN UNCHANGED <<pc, error>>
               ELSE Fail(c, SurfacedError(e))
    /\ UNCHANGED <<input, mainUtxoWithRaw, redemptionRequests, pendingRedemption,
                   builder, transaction, gatewayCalls, bitcoinCalls, ledger>>
    /\ UNCHANGED gatewayVars
    /\ UNCHANGED eventVars
    /\ UNCHANGED solanaVars

\* Faulty variant: the requestedAt check never fires.
IsNotPendingNever(request) == request.requestedAt < 0

\* if (pendingRedemption.requestedAt == 0)
IsNotPending(request) == request.requestedAt = 0

\* The body of the loop after the gateway returned.
CheckPendingRedemption(c) ==
    /\ pc[c] = "checkPendingRedemption"
    /\ LET returned == pendingRedemption[c][1]
           k == Len(redemptionRequests[c]) + 1
       IN IF IsNotPending(returned)
          THEN /\ Fail(c, ErrNotPending)
               /\ UNCHANGED redemptionRequests
          ELSE /\ redemptionRequests' = [redemptionRequests EXCEPT ![c] =
                      Append(@, [returned EXCEPT !.redeemerOutputScript =
                                     input[c].redeemerOutputScripts[k]])]
               /\ pc' = [pc EXCEPT ![c] = "fetchRedemptionRequests"]
               /\ UNCHANGED error
    /\ UNCHANGED <<input, mainUtxoWithRaw, call, pendingRedemption, builder,
                   transaction, gatewayCalls, bitcoinCalls, ledger>>
    /\ UNCHANGED gatewayVars
    /\ UNCHANGED eventVars
    /\ UNCHANGED solanaVars

----------------------------------------------------------------------------
(* createRedemptionTransaction *)

\* Faulty variant: the length check is off by one.
IsEmptyRequestListOffByOne(requests) == Len(requests) < 0

\* if (redemptionRequests.length < 1)
IsEmptyRequestList(requests) == Len(requests) < 1

\* Faulty variant: the coin is addressed by the byte-reversed transaction hash.
InputCoinsReversedHash(mainUtxo) ==
    <<[CoinFromTX(mainUtxo.transactionHex, mainUtxo.outputIndex)
         EXCEPT !.hash = Reverse(@)]>>

\* The single input: the coin of the main UTXO in its raw transaction.
InputCoins(mainUtxo) ==
    <<CoinFromTX(mainUtxo.transactionHex, mainUtxo.outputIndex)>>

\* Faulty variant: the treasury fee is not subtracted.
OutputValueWithoutTreasuryFee(request) ==
    request.requestedAmount - request.txMaxFee

\* request.requestedAmount.sub(request.txMaxFee).sub(request.treasuryFee)
OutputValue(request) ==
    request.requestedAmount - request.txMaxFee - request.treasuryFee

\* Faulty variant: the treasury fee is taken for the fee share.
FeeShareTreasury(request) == request.treasuryFee

\* txTotalFee += request.txMaxFee.toNumber()
FeeShare(request) == request.txMaxFee

\* bcoin's Output takes a value that is a non-negative safe integer
IsOutputValue(value) == value >= 0

\* Faulty variant: the fee is not taken off the change.
ChangeOutputValueWithoutFee(mainUtxo, totalOutputsValue, txTotalFee) ==
    mainUtxo.value - totalOutputsValue

\* mainUtxo.value - totalOutputsValue - txTotalFee
ChangeOutputValue(mainUtxo, totalOutputsValue, txTotalFee) ==
    mainUtxo.value - totalOutputsValue - txTotalFee

\* Faulty variant: a change output is added also when nothing is left.
HasChangeOutputAlsoZero(changeOutputValue) == changeOutputValue >= 0

\* if (changeOutputValue > 0)
HasChangeOutput(changeOutputValue) == changeOutputValue > 0

\* The entry of createRedemptionTransaction: the list must not be empty; the
\* key ring, the wallet address and a new MTX are made.
CreateRedemptionTransaction(c) ==
    /\ pc[c] = "createRedemptionTransaction"
    /\ IF IsEmptyRequestList(redemptionRequests[c])
       THEN /\ Fail(c, ErrNoRequests)
            /\ UNCHANGED builder
       ELSE /\ builder' = [builder EXCEPT ![c] = NewBuilder]
            /\ pc' = [pc EXCEPT ![c] = "processRequests"]
            /\ UNCHANGED error
    /\ UNCHANGED <<input, mainUtxoWithRaw, redemptionRequests, call,
                   pendingRedemption, transaction, gatewayCalls, bitcoinCalls, ledger>>
    /\ UNCHANGED gatewayVars
    /\ UNCHANGED eventVars
    /\ UNCHANGED solanaVars

\* One turn of the loop over redemptionRequests.
ProcessRequest(c) ==
    /\ pc[c] = "processRequests"
    /\ Len(builder[c].transaction.outputs) < Len(redemptionRequests[c])
    /\ LET request == redemptionRequests[c][Len(builder[c].transaction.outputs) + 1]
           outputValue == OutputValue(request)
       IN IF IsOutputValue(outputValue)
          THEN /\ builder' = [builder EXCEPT ![c] =
                      [transaction |->
                           [@.transaction EXCEPT !.outputs =
                                Append(@, [script |->
                                               ScriptFromRaw(request.redeemerOutputScript),
                                           value |-> outputValue])],
                       txTotalFee |-> @.txTotalFee + FeeShare(request),
                       totalOutputsValue |-> @.totalOutputsValue + outputValue]]
               /\ UNCHANGED <<pc, error>>
          ELSE /\ Fail(c, ErrOutputValue)
               /\ UNCHANGED builder
    /\ UNCHANGED <<input, mainUtxoWithRaw, redemptionRequests, call,
                   pendingRedemption, transaction, gatewayCalls, bitcoinCalls, ledger>>
    /\ UNCHANGED gatewayVars
    /\ UNCHANGED eventVars
    /\ UNCHANGED solanaVars

\* After the loop: the explicit change output.
AddChangeOutput(c) ==
    /\ pc[c] = "processRequests"
    /\ Len(builder[c].transaction.outputs) = Len(redemptionRequests[c])
    /\ LET walletAddress ==
               getAddress(createKeyRing(input[c].walletPrivateKey, input[c].witness))
           changeOutputValue ==
               ChangeOutputValue(mainUtxoWithRaw[c][1], builder[c].totalOutputsValue,
                                 builder[c].txTotalFee)
       IN builder' = [builder EXCEPT ![c].transaction.outputs =
              IF HasChangeOutput(changeOutputValue)
              THEN Append(@, [script |-> ScriptFromAddress(walletAddress),
                              value |-> changeOutputValue])
              ELSE @]
    /\ pc' = [pc EXCEPT ![c] = "fund"]
    /\ UNCHANGED <<input, mainUtxoWithRaw, redemptionRequests, call, pendingRedemption,
                   transaction, error, gatewayCalls, bitcoinCalls, ledger>>
    /\ UNCHANGED gatewayVars
    /\ UNCHANGED eventVars
    /\ UNCHANGED solanaVars

\* transaction.fund(inputCoins, {changeAddress, hardFee: txTotalFee, subtractFee: false}):
\* the coins must cover the outputs and the hard fee; what they hold beyond
\* that goes to a change output at the change address.
Fund(c) ==
    /\ pc[c] = "fund"
    /\ LET coins == InputCoins(mainUtxoWithRaw[c][1])
           walletAddress ==
               getAddress(createKeyRing(input[c].walletPrivateKey, input[c].witness))
           required == OutputsValue(builder[c].transaction) + builder[c].txTotalFee
           change == coins[1].value - required
       IN IF change < 0
          THEN /\ Fail(c, ErrFunding)
               /\ UNCHANGED builder
          ELSE /\ builder' = [builder EXCEPT
                      ![c].transaction.inputs =
                          <<[hash |-> coins[1].hash, index |-> coins[1].index]>>,
                      ![c].transaction.outputs =
                          IF change > 0
                          THEN Append(@, [script |-> ScriptFromAddress(walletAddress),
                                          value |-> change])
                          ELSE @]
               /\ pc' = [pc EXCEPT ![c] = "sign"]
               /\ UNCHANGED error
    /\ UNCHANGED <<input, mainUtxoWithRaw, redemptionRequests, call,
                   pendingRedemption, transaction, gatewayCalls, bitcoinCalls, ledger>>
    /\ UNCHANGED gatewayVars
    /\ UNCHANGED eventVars
    /\ UNCHANGED solanaVars

\* transaction.sign(walletKeyRing); return {transactionHex: transaction.toRaw()}
Sign(c) ==
    /\ pc[c] = "sign"
    /\ builder' = [builder EXCEPT ![c].transaction.signed = TRUE]
    /\ transaction' = [transaction EXCEPT ![c] =
           <<[transactionHex |-> [builder[c].transaction EXCEPT !.signed = TRUE]]>>]
    /\ pc' = [pc EXCEPT ![c] = "broadcast"]
    /\ UNCHANGED <<input, mainUtxoWithRaw, redemptionRequests, call,
                   pendingRedemption, error, gatewayCalls, bitcoinCalls, ledger>>
    /\ UNCHANGED gatewayVars
    /\ UNCHANGED eventVars
    /\ UNCHANGED solanaVars

----------------------------------------------------------------------------
(* makeRedemptions: the broadcast *)

\* Faulty variant: the raw transaction of the main UTXO is broadcast.
BroadcastArgumentMainUtxo(c) ==
    [transactionHex |-> mainUtxoWithRaw[c][1].transactionHex]

\* Faulty variant: the built transaction is kept in one place shared by all
\* cycles, and the one found there is broadcast.
BroadcastArgumentShared(c) ==
    transaction[CHOOSE d \in Cycles : transaction[d] # <<>>][1]

\* The argument of bitcoinClient.broadcast
BroadcastArgument(c) == transaction[c][1]

\* await bitcoinClient.broadcast(transaction)
Broadcast(c) ==
    /\ pc[c] = "broadcast"
    /\ bitcoinCalls' = [bitcoinCalls EXCEPT ![c] =
           Append(@, [op |-> "broadcast", arg |-> BroadcastArgument(c)])]
    /\ \/ /\ pc' = [pc EXCEPT ![c] = "done"]
          /\ UNCHANGED error
       \/ \E e \in BitcoinErrors : Fail(c, e)
    /\ UNCHANGED <<input, mainUtxoWithRaw, redemptionRequests, call, pendingRedemption,
                   builder, transaction, gatewayCalls, ledger>>
    /\ UNCHANGED gatewayVars
    /\ UNCHANGED eventVars
    /\ UNCHANGED solanaVars

----------------------------------------------------------------------------

Next ==
    \/ \E c \in Cycles : GetRawTransaction(c)
    \/ \E c \in Cycles : FetchNext(c)
    \/ \E c \in Cycles : PendingRedemptionsSucceeds(c)
    \/ \E c \in Cycles : PendingRedemptionsFails(c)
    \/ \E c \in Cycles : CheckPendingRedemption(c)
    \/ \E c \in Cycles : CreateRedemptionTransaction(c)
    \/ \E c \in Cycles : ProcessRequest(c)
    \/ \E c \in Cycles : AddChangeOutput(c)
    \/ \E c \in Cycles : Fund(c)
    \/ \E c \in Cycles : Sign(c)
    \/ \E c \in Cycles : Broadcast(c)

Spec == Init /\ [][Next]_vars

----------------------------------------------------------------------------
(* Two cycles of makeRedemptions at once *)

\* Every await of makeRedemptions is a point where the other cycle may run:
\* the steps of Next are taken by either cycle, in any order.
ConcurrentCycles == {1, 2}

\* The funding UTXO of each cycle: outputs of two different transactions
ConcurrentMainUtxos ==
    (1 :> [transactionHash |-> <<171, 205>>, outputIndex |-> 1, value |-> MaxFunding])
    @@ (2 :> [transactionHash |-> <<18, 52>>, outputIndex |-> 1, value |-> MaxFunding])

\* Both cycles run for the same wallet, each over one script, the same or not
ConcurrentInputs ==
    {in \in [ConcurrentCycles ->
                [walletPrivateKey : WalletPrivateKeys,
                 mainUtxo : {ConcurrentMainUtxos[c] : c \in ConcurrentCycles},
                 redeemerOutputScripts : [1 .. 1 -> RedeemerOutputScripts],
                 witness : {FALSE}]] :
        \A c \in ConcurrentCycles : in[c].mainUtxo = ConcurrentMainUtxos[c]}

ConcurrentInit ==
    /\ input \in ConcurrentInputs
    /\ pc = [c \in ConcurrentCycles |-> "getRawTransaction"]
    /\ mainUtxoWithRaw = [c \in ConcurrentCycles |-> <<>>]
    /\ redemptionRequests = [c \in ConcurrentCycles |-> <<>>]
    /\ call = [c \in ConcurrentCycles |-> NoCall]
    /\ pendingRedemption = [c \in ConcurrentCycles |-> <<>>]
    /\ builder = [c \in ConcurrentCycles |-> NewBuilder]
    /\ transaction = [c \in ConcurrentCycles |-> <<>>]
    /\ error = [c \in ConcurrentCycles |-> ""]
    /\ gatewayCalls = [c \in ConcurrentCycles |-> <<>>]
    /\ bitcoinCalls = [c \in ConcurrentCycles |-> <<>>]
    /\ ledger = <<>>
    /\ sent = [c \in ConcurrentCycles |-> <<>>]
    /\ difficultyFactor = 0
    /\ revealed = {}
    /\ chainConfirmations = 0
    /\ confirmations = [c \in ConcurrentCycles |-> <<>>]
    /\ proof = [c \in ConcurrentCycles |-> <<>>]
    /\ rawTransaction = [c \in ConcurrentCycles |-> <<>>]
    /\ result = [c \in ConcurrentCycles |-> <<>>]
    /\ history = <<>>
    /\ events = <<>>
    /\ accounts = <<>>
    /\ minted = 0

ConcurrentSpec == ConcurrentInit /\ [][Next]_vars

----------------------------------------------------------------------------
(* The gateway's keys: buildRedemptionKey, buildDepositKey, buildUtxoHash *)

\* n bytes of value b
Bytes(n, b) == [k \in 1 .. n |-> b]

\* ethers' solidityPack of a uintN: the value in `width` bytes, big-endian
BigEndian(value, width) ==
    LET RECURSIVE Digit(_, _)
        Digit(v, j) == IF j = 0 THEN v % 256 ELSE Digit(v \div 256, j - 1)
    IN [k \in 1 .. width |-> Digit(value, width - k)]

\* ethers' solidityPack of a bytesN takes a value of exactly N bytes
IsBytesN(value, size) == Len(value) = size

ErrBytes20 == "invalid value for bytes20"
ErrBytes32 == "invalid value for bytes32"

\* Faulty variant: the hash is packed as it was given.
buildDepositKeyUnreversed(depositTxHash, depositOutputIndex) ==
    solidityKeccak256(depositTxHash \o BigEndian(depositOutputIndex, 4))

\* Faulty variant: the output index is packed in one byte.
buildDepositKeyOneByteIndex(depositTxHash, depositOutputIndex) ==
    solidityKeccak256(Reverse(depositTxHash) \o BigEndian(depositOutputIndex, 1))

\* EthereumBridge.buildDepositKey: keccak256 of the packed
\* (bytes32 reversed hash, uint32 output index)
buildDepositKey(depositTxHash, depositOutputIndex) ==
    solidityKeccak256(Reverse(depositTxHash) \o BigEndian(depositOutputIndex, 4))

\* EthereumBridge.buildUtxoHash: keccak256 of the packed
\* (bytes32 reversed hash, uint32 output index, uint64 value)
buildUtxoHash(utxo) ==
    solidityKeccak256(Reverse(utxo.transactionHash)
                        \o BigEndian(utxo.outputIndex, 4)
                        \o BigEndian(utxo.value, 8))

\* 20-byte wallet public key hashes
KeyWalletHashes == {Bytes(20, 17), Bytes(20, 34)}

\* Redeemer output scripts: the empty one, short ones, 20-byte ones (one of them the bytes of a
\* wallet hash), a P2WPKH script, and scripts of 255, 256 and 257 bytes
KeyScripts ==
    {<<>>, <<118>>, <<0, 20>>, Bytes(20, 17), Bytes(20, 51), <<0, 20>> \o Bytes(20, 17),
     Bytes(255, 118), Bytes(256, 118), Bytes(257, 118)}

\* Transaction hashes of 32 bytes, none of them its own reversal, and one value
\* that is no 32-byte hash
DepositTxHashes ==
    {<<171>> \o Bytes(30, 0) \o <<205>>, <<1, 2>> \o Bytes(30, 7), <<171, 205>>}

DepositOutputIndexes == {0, 1, 255, 256, 65536}

UtxoValues == {0, 1, 256, 100000}

\* The calls of the three key functions
KeyInputs ==
    [operation : {"buildRedemptionKey"},
     walletPublicKeyHash : KeyWalletHashes \cup KeyScripts,
     redeemerOutputScript : KeyScripts \cup KeyWalletHashes]
      \cup [operation : {"buildDepositKey"}, depositTxHash : DepositTxHashes,
            depositOutputIndex : DepositOutputIndexes]
      \cup [operation : {"buildUtxoHash"},
            utxo : [transactionHash : DepositTxHashes,
                    outputIndex : DepositOutputIndexes, value : UtxoValues]]

\* The redemption cycle's own state, at rest
RedemptionIdle ==
    /\ mainUtxoWithRaw = [c \in InitialCycles |-> <<>>]
    /\ redemptionRequests = [c \in InitialCycles |-> <<>>]
    /\ pendingRedemption = [c \in InitialCycles |-> <<>>]
    /\ builder = [c \in InitialCycles |-> NewBuilder]
    /\ transaction = [c \in InitialCycles |-> <<>>]
    /\ gatewayCalls = [c \in InitialCycles |-> <<>>]
    /\ ledger = <<>>

KeyInit ==
    /\ input \in [InitialCycles -> KeyInputs]
    /\ pc = [c \in InitialCycles |-> input[c].operation]
    /\ call = [c \in InitialCycles |-> NoCall]
    /\ error = [c \in InitialCycles |-> ""]
    /\ bitcoinCalls = [c \in InitialCycles |-> <<>>]
    /\ RedemptionIdle
    /\ sent = [c \in InitialCycles |-> <<>>]
    /\ difficultyFactor = 0
    /\ revealed = {}
    /\ chainConfirmations = 0
    /\ confirmations = [c \in InitialCycles |-> <<>>]
    /\ proof = [c \in InitialCycles |-> <<>>]
    /\ rawTransaction = [c \in InitialCycles |-> <<>>]
    /\ result = [c \in InitialCycles |-> <<>>]
    /\ history = <<>>
    /\ events = <<>>
    /\ accounts = <<>>
    /\ minted = 0

\* The function returns `value` to its caller.
Return(c, value) ==
    /\ result' = [result EXCEPT ![c] = <<value>>]
    /\ pc' = [pc EXCEPT ![c] = "done"]
    /\ UNCHANGED error

\* What Hex.reverse() leaves in the object it is called on
AfterReverse(hash) == hash

\* EthereumBridge.buildRedemptionKey(walletPublicKeyHash, redeemerOutputScript)
BuildRedemptionKey(c) ==
    /\ pc[c] = "buildRedemptionKey"
    /\ IF IsBytesN(input[c].walletPublicKeyHash, 20)
       THEN Return(c, buildRedemptionKey(input[c].walletPublicKeyHash,
                                         input[c].redeemerOutputScript))
       ELSE Fail(c, ErrBytes20) /\ UNCHANGED result
    /\ UNCHANGED <<input, call, bitcoinCalls, sent, difficultyFactor, revealed,
                   chainConfirmations, confirmations, proof, rawTransaction, history>>
    /\ UNCHANGED redemptionVars
    /\ UNCHANGED eventVars
    /\ UNCHANGED solanaVars

\* EthereumBridge.buildDepositKey(depositTxHash, depositOutputIndex)
BuildDepositKey(c) ==
    /\ pc[c] = "buildDepositKey"
    /\ IF IsBytesN(Reverse(input[c].depositTxHash), 32)
       THEN Return(c, buildDepositKey(input[c].depositTxHash,
                                      input[c].depositOutputIndex))
       ELSE Fail(c, ErrBytes32) /\ UNCHANGED result
    /\ input' = [input EXCEPT ![c].depositTxHash = AfterReverse(@)]
    /\ UNCHANGED <<call, bitcoinCalls, sent, difficultyFactor, revealed,
                   chainConfirmations, confirmations, proof, rawTransaction, history>>
    /\ UNCHANGED redemptionVars
    /\ UNCHANGED eventVars
    /\ UNCHANGED solanaVars

\* EthereumBridge.buildUtxoHash(utxo)
BuildUtxoHash(c) ==
    /\ pc[c] = "buildUtxoHash"
    /\ IF IsBytesN(Reverse(input[c].utxo.transactionHash), 32)
       THEN Return(c, buildUtxoHash(input[c].utxo))
       ELSE Fail(c, ErrBytes32) /\ UNCHANGED result
    /\ input' = [input EXCEPT ![c].utxo.transactionHash = AfterReverse(@)]
    /\ UNCHANGED <<call, bitcoinCalls, sent, difficultyFactor, revealed,
                   chainConfirmations, confirmations, proof, rawTransaction, history>>
    /\ UNCHANGED redemptionVars
    /\ UNCHANGED eventVars
    /\ UNCHANGED solanaVars

KeyNext ==
    \/ \E c \in Cycles : BuildRedemptionKey(c)
    \/ \E c \in Cycles : BuildDepositKey(c)
    \/ \E c \in Cycles : BuildUtxoHash(c)

KeySpec == KeyInit /\ [][KeyNext]_vars

----------------------------------------------------------------------------
(* The gateway's mutating operations and sendWithRetry *)

\* Error messages are sequences of words; <<>> is no message.
RpcErrorWords == {<<"rpc", "timeout">>}

\* The ledger's rejection of a deposit it holds as revealed
RevertAlreadyRevealed == <<"execution", "reverted:", "Deposit", "already", "revealed">>

\* A rejection of the ledger for another reason
RevertOther == <<"execution", "reverted:", "Wallet", "must", "be", "in", "Live", "state">>

\* message.includes(fragment)
Includes(message, fragment) ==
    \E i \in 0 .. (Len(message) - Len(fragment)) :
        SubSeq(message, i + 1, i + Len(fragment)) = fragment

\* sendWithRetry: the error is one of the errors the caller enumerated
IsExpectedError(message, expected) ==
    \E fragment \in expected : Includes(message, fragment)

\* sendWithRetry: what the call completes with when an enumerated error ends it
ShortCircuitTx == [hash |-> <<"0x">>]

\* Faulty variant: no error is enumerated.
RevealDepositExpectedErrorsNone == {}

\* The errors revealDeposit enumerates: ["Deposit already revealed"]
RevealDepositExpectedErrors == {<<"Deposit", "already", "revealed">>}

\* The state of a sendWithRetry call: the wrapped ledger call, its arguments,
\* the number of attempts and the enumerated errors, and the attempts made.
NewSend(method, params, retries, expected) ==
    [attempts |-> 0, errors |-> <<>>, method |-> method, params |-> params,
     retries |-> retries, expected |-> expected]

\* The 0x-prefixed raw vectors of a transaction
TxParam(tx) ==
    [version |-> tx.version, inputVector |-> tx.inputs, outputVector |-> tx.outputs,
     locktime |-> tx.locktime]

\* The 0x-prefixed proof
ProofParam(spvProof) ==
    [merkleProof |-> spvProof.merkleProof, txIndexInBlock |-> spvProof.txIndexInBlock,
     bitcoinHeaders |-> spvProof.bitcoinHeaders]

\* vault ? `0x${vault.identifierHex}` : constants.AddressZero
VaultParam(vault) == IF vault = <<>> THEN "AddressZero" ELSE vault[1]

\* Faulty variant: the hash is sent in the order it was given.
MainUtxoParamUnreversed(mainUtxo) ==
    [txHash |-> mainUtxo.transactionHash, txOutputIndex |-> mainUtxo.outputIndex,
     txOutputValue |-> mainUtxo.value]

\* mainUtxoParam of submitDepositSweepProof
SubmitDepositSweepProofMainUtxoParam(mainUtxo) ==
    [txHash |-> Reverse(mainUtxo.transactionHash),
     txOutputIndex |-> mainUtxo.outputIndex,
     txOutputValue |-> mainUtxo.value]

\* mainUtxoParam of requestRedemption
RequestRedemptionMainUtxoParam(mainUtxo) ==
    [txHash |-> Reverse(mainUtxo.transactionHash),
     txOutputIndex |-> mainUtxo.outputIndex,
     txOutputValue |-> mainUtxo.value]

\* mainUtxoParam of submitRedemptionProof
SubmitRedemptionProofMainUtxoParam(mainUtxo) ==
    [txHash |-> Reverse(mainUtxo.transactionHash),
     txOutputIndex |-> mainUtxo.outputIndex,
     txOutputValue |-> mainUtxo.value]

\* The deposit the ledger derives from a reveal
RevealedDeposit(params) ==
    [fundingTx |-> params.depositTxParam,
     fundingOutputIndex |-> params.revealParam.fundingOutputIndex]

\* EthereumBridge.revealDeposit up to the call of sendWithRetry
RevealDeposit(c) ==
    /\ pc[c] = "revealDeposit"
    /\ call' = [call EXCEPT ![c] =
           NewSend("revealDeposit",
                   [depositTxParam |-> TxParam(input[c].depositTx),
                    revealParam |->
                        [fundingOutputIndex |-> input[c].depositOutputIndex,
                         blindingFactor |-> input[c].deposit.blindingFactor,
                         walletPubKeyHash |-> input[c].deposit.walletPublicKeyHash,
                         refundPubKeyHash |-> input[c].deposit.refundPublicKeyHash,
                         refundLocktime |-> input[c].deposit.refundLocktime,
                         vault |-> VaultParam(input[c].vault)]],
                   totalRetryAttempts, RevealDepositExpectedErrors)]
    /\ pc' = [pc EXCEPT ![c] = "send"]
    /\ UNCHANGED <<input, error, bitcoinCalls, sent, difficultyFactor, revealed,
                   chainConfirmations, confirmations, proof, rawTransaction, result,
                   history>>
    /\ UNCHANGED redemptionVars
    /\ UNCHANGED eventVars
    /\ UNCHANGED solanaVars

\* EthereumBridge.submitDepositSweepProof up to the call of sendWithRetry
SubmitDepositSweepProof(c) ==
    /\ pc[c] = "submitDepositSweepProof"
    /\ call' = [call EXCEPT ![c] =
           NewSend("submitDepositSweepProof",
                   [sweepTxParam |-> TxParam(input[c].sweepTx),
                    sweepProofParam |-> ProofParam(input[c].sweepProof),
                    mainUtxoParam |->
                        SubmitDepositSweepProofMainUtxoParam(input[c].mainUtxo),
                    vaultParam |-> VaultParam(input[c].vault)],
                   totalRetryAttempts, {})]
    /\ pc' = [pc EXCEPT ![c] = "send"]
    /\ UNCHANGED <<input, error, bitcoinCalls, sent, difficultyFactor, revealed,
                   chainConfirmations, confirmations, proof, rawTransaction, result,
                   history>>
    /\ UNCHANGED redemptionVars
    /\ UNCHANGED eventVars
    /\ UNCHANGED solanaVars

\* The length-prefixed script of requestRedemption:
\* Buffer.concat([Buffer.from([raw.length]), raw])
PrefixedRawRedeemerOutputScript(redeemerOutputScript) ==
    <<LengthByte(redeemerOutputScript)>> \o redeemerOutputScript

\* EthereumBridge.requestRedemption up to the call of sendWithRetry
RequestRedemption(c) ==
    /\ pc[c] = "requestRedemption"
    /\ call' = [call EXCEPT ![c] =
           NewSend("requestRedemption",
                   [walletPublicKeyHash |-> computeHash160(input[c].walletPublicKey),
                    mainUtxoParam |-> RequestRedemptionMainUtxoParam(input[c].mainUtxo),
                    prefixedRawRedeemerOutputScript |->
                        PrefixedRawRedeemerOutputScript(input[c].redeemerOutputScript),
                    amount |-> input[c].amount],
                   totalRetryAttempts, {})]
    /\ pc' = [pc EXCEPT ![c] = "send"]
    /\ UNCHANGED <<input, error, bitcoinCalls, sent, difficultyFactor, revealed,
                   chainConfirmations, confirmations, proof, rawTransaction, result,
                   history>>
    /\ UNCHANGED redemptionVars
    /\ UNCHANGED eventVars
    /\ UNCHANGED solanaVars

\* Faulty variant: the error of the last attempt is swallowed and the call
\* waits for a further attempt that never comes.
AfterExhaustionWaiting(c) == "backoff"

\* The error thrown by the retried call is the operation's error: nothing in the
\* gateway catches it.
AfterExhaustion(c) == "failed"

\* The retried call threw `message` to its caller.
Exhausted(c, message) ==
    /\ pc' = [pc EXCEPT ![c] = AfterExhaustion(c)]
    /\ error' = [error EXCEPT ![c] = message]

\* What the operation returns once sendWithRetry returned `tx`:
\* revealDeposit returns tx.hash, the others nothing.
SendReturns(c, tx) ==
    /\ result' = [result EXCEPT ![c] =
           IF call[c].method = "revealDeposit" THEN <<tx.hash>> ELSE <<>>]
    /\ pc' = [pc EXCEPT ![c] = "done"]
    /\ UNCHANGED error

\* The request of the attempt in flight, as the ledger's endpoint receives it
Request(c, response) ==
    [method |-> call[c].method, params |-> call[c].params, response |-> response]

\* The ledger holds the deposit of the reveal in flight as revealed
AlreadyRevealed(c) ==
    /\ call[c].method = "revealDeposit"
    /\ RevealedDeposit(call[c].params) \in revealed

\* The ledger's hash of a revealed funding transaction, in its own byte order
FundingTxHash(depositTxParam) == <<171>> \o Bytes(30, 0) \o <<205>>

\* The event the ledger logs for the transaction in flight, if any: the
\* arguments of the event are the values the ledger was sent
EmittedArgs(c) ==
    IF call[c].method = "revealDeposit"
    THEN <<[name |-> "DepositRevealed",
            args |-> [fundingTxHash |-> FundingTxHash(call[c].params.depositTxParam),
                      fundingOutputIndex |-> call[c].params.revealParam.fundingOutputIndex,
                      depositor |-> "0xdepositor",
                      amount |-> MaxAmount,
                      blindingFactor |-> call[c].params.revealParam.blindingFactor,
                      walletPubKeyHash |-> call[c].params.revealParam.walletPubKeyHash,
                      refundPubKeyHash |-> call[c].params.revealParam.refundPubKeyHash,
                      refundLocktime |-> call[c].params.revealParam.refundLocktime,
                      vault |-> call[c].params.revealParam.vault]]>>
    ELSE IF call[c].method = "requestRedemption"
    THEN <<[name |-> "RedemptionRequested",
            args |-> [walletPubKeyHash |-> call[c].params.walletPublicKeyHash,
                      redeemer |-> "0xredeemer",
                      redeemerOutputScript |->
                          call[c].params.prefixedRawRedeemerOutputScript,
                      requestedAmount |-> call[c].params.amount,
                      treasuryFee |-> 0,
                      txMaxFee |-> 1]]>>
    ELSE <<>>

\* An event as the log holds it: one event per block, in the block after the
\* log's last
Logged(event, transactionHash) ==
    [name |-> event.name, args |-> event.args,
     blockNumber |-> Len(events) + 1,
     blockHash |-> <<"block", Len(events) + 1>>,
     transactionHash |-> transactionHash]

\* What the ledger does on accepting the transaction in flight
LedgerAccepts(c) ==
    /\ revealed' = IF call[c].method = "revealDeposit"
                   THEN revealed \cup {RevealedDeposit(call[c].params)}
                   ELSE revealed
    /\ events' = IF EmittedArgs(c) = <<>>
                 THEN events
                 ELSE Append(events,
                             Logged(EmittedArgs(c)[1],
                                    <<"hash of", call[c].method, call[c].params>>))

\* An attempt of sendWithRetry failed with `message`: an enumerated error ends
\* the call as completed; another error is retried, and thrown after the last
\* attempt.
AttemptFailed(c, message) ==
    LET made == call[c].attempts + 1
    IN /\ call' = [call EXCEPT ![c].attempts = made,
                               ![c].errors = Append(@, message)]
       /\ IF IsExpectedError(message, call[c].expected)
          THEN SendReturns(c, ShortCircuitTx)
          ELSE /\ UNCHANGED result
               /\ IF RetryAgain(call[c].retries, made)
                  THEN UNCHANGED <<pc, error>>
                  ELSE Exhausted(c, SurfacedError(message))

\* One attempt of the wrapped ledger transaction that the ledger accepts.
SendAccepted(c) ==
    /\ pc[c] = "send"
    /\ ~AlreadyRevealed(c)
    /\ LET tx == [hash |-> <<"hash of", call[c].method, call[c].params>>]
       IN /\ sent' = [sent EXCEPT ![c] = Append(@, Request(c, [ok |-> tx]))]
          /\ SendReturns(c, tx)
    /\ LedgerAccepts(c)
    /\ UNCHANGED <<input, call, bitcoinCalls, difficultyFactor, chainConfirmations,
                   confirmations, proof, rawTransaction, history>>
    /\ UNCHANGED redemptionVars
    /\ UNCHANGED solanaVars

\* One attempt that the ledger rejects, or that fails on the way to it.
SendRejected(c) ==
    /\ pc[c] = "send"
    /\ \E message \in RpcErrorWords \cup {RevertOther}
                        \cup (IF AlreadyRevealed(c) THEN {RevertAlreadyRevealed} ELSE {}) :
         /\ sent' = [sent EXCEPT ![c] = Append(@, Request(c, [error |-> message]))]
         /\ AttemptFailed(c, message)
    /\ UNCHANGED <<input, bitcoinCalls, difficultyFactor, revealed, chainConfirmations,
                   confirmations, proof, rawTransaction, history>>
    /\ UNCHANGED redemptionVars
    /\ UNCHANGED eventVars
    /\ UNCHANGED solanaVars

\* One attempt that the ledger accepts while its answer is lost on the way back.
SendLost(c) ==
    /\ pc[c] = "send"
    /\ ~AlreadyRevealed(c)
    /\ \E message \in RpcErrorWords :
         /\ sent' = [sent EXCEPT ![c] = Append(@, Request(c, [error |-> message]))]
         /\ AttemptFailed(c, message)
    /\ LedgerAccepts(c)
    /\ UNCHANGED <<input, bitcoinCalls, difficultyFactor, chainConfirmations,
                   confirmations, proof, rawTransaction, history>>
    /\ UNCHANGED redemptionVars
    /\ UNCHANGED solanaVars

----------------------------------------------------------------------------
(* proveRedemption *)

\* Values of the ledger's txProofDifficultyFactor parameter
DifficultyFactors == {1, 6}

BitcoinErrorWords == {<<"electrum", "unavailable">>}

ErrInsufficientConfirmations == <<"InsufficientConfirmations">>

\* proveRedemption is entered: bridge.txProofDifficultyFactor() is called.
ProveRedemption(c) ==
    /\ pc[c] = "proveRedemption"
    /\ call' = [call EXCEPT ![c] = NoCall]
    /\ pc' = [pc EXCEPT ![c] = "txProofDifficultyFactor"]
    /\ UNCHANGED <<input, error, bitcoinCalls, sent, difficultyFactor, revealed,
                   chainConfirmations, confirmations, proof, rawTransaction, result,
                   history>>
    /\ UNCHANGED redemptionVars
    /\ UNCHANGED eventVars
    /\ UNCHANGED solanaVars

\* One attempt of this._instance.txProofDifficultyFactor() that the ledger
\* answers: the gateway returns the parameter as a number.
TxProofDifficultyFactorSucceeds(c) ==
    /\ pc[c] = "txProofDifficultyFactor"
    /\ sent' = [sent EXCEPT ![c] =
           Append(@, [method |-> "txProofDifficultyFactor", params |-> <<>>,
                      response |-> [ok |-> difficultyFactor]])]
    /\ confirmations' = [confirmations EXCEPT ![c] = <<difficultyFactor>>]
    /\ call' = [call EXCEPT ![c] = NoCall]
    /\ pc' = [pc EXCEPT ![c] = "createTransactionProof"]
    /\ UNCHANGED <<input, error, bitcoinCalls, difficultyFactor, revealed,
                   chainConfirmations, proof, rawTransaction, result, history>>
    /\ UNCHANGED redemptionVars
    /\ UNCHANGED eventVars
    /\ UNCHANGED solanaVars

\* One attempt that fails: retried by backoffRetrier, or thrown after the last.
TxProofDifficultyFactorFails(c) ==
    /\ pc[c] = "txProofDifficultyFactor"
    /\ \E message \in RpcErrorWords :
         LET made == call[c].attempts + 1
         IN /\ sent' = [sent EXCEPT ![c] =
                   Append(@, [method |-> "txProofDifficultyFactor", params |-> <<>>,
                              response |-> [error |-> message]])]
            /\ call' = [call EXCEPT ![c] =
                   [attempts |-> made, errors |-> Append(@.errors, message)]]
            /\ IF RetryAgain(totalRetryAttempts, made)
               THEN UNCHANGED <<pc, error>>
               ELSE Exhausted(c, SurfacedError(message))
    /\ UNCHANGED <<input, bitcoinCalls, difficultyFactor, revealed, chainConfirmations,
                   confirmations, proof, rawTransaction, result, history>>
    /\ UNCHANGED redemptionVars
    /\ UNCHANGED eventVars
    /\ UNCHANGED solanaVars

\* Faulty variant: the proof is asked for without any confirmation.
ProofDepthArgumentNone(c) == 0

\* Faulty variant: the depth of the first run is kept for the later ones.
ProofDepthArgumentCached(c) ==
    IF history # <<>> /\ history[1].confirmations # <<>>
    THEN history[1].confirmations[1]
    ELSE confirmations[c][1]

\* The depth proveRedemption hands to createTransactionProof
ProofDepthArgument(c) == confirmations[c][1]

\* The header chain of a proof: the block of the transaction and the blocks
\* after it, up to the required depth
HeadersChain(requiredConfirmations) ==
    [k \in 1 .. requiredConfirmations |-> [header |-> k]]

\* createTransactionProof(transactionHash, confirmations, bitcoinClient)
CreateTransactionProof(c) ==
    /\ pc[c] = "createTransactionProof"
    /\ LET required == ProofDepthArgument(c)
           asked == [op |-> "createTransactionProof",
                     arg |-> [transactionHash |-> input[c].transactionHash,
                              requiredConfirmations |-> required]]
           \* the call, with what the Bitcoin data source answered
           Call(response) ==
               bitcoinCalls' = [bitcoinCalls EXCEPT ![c] =
                   Append(@, [op |-> asked.op, arg |-> asked.arg,
                              response |-> response])]
       IN \/ /\ chainConfirmations >= required
             /\ Call([confirmations |-> chainConfirmations])
             /\ proof' = [proof EXCEPT ![c] =
                    <<[merkleProof |-> [pathOf |-> input[c].transactionHash],
                       txIndexInBlock |-> 0,
                       bitcoinHeaders |-> HeadersChain(required)]>>]
             /\ pc' = [pc EXCEPT ![c] = "proveGetRawTransaction"]
             /\ UNCHANGED error
          \/ /\ chainConfirmations < required
             /\ Call([confirmations |-> chainConfirmations])
             /\ Fail(c, ErrInsufficientConfirmations)
             /\ UNCHANGED proof
          \/ /\ \E message \in BitcoinErrorWords :
                   /\ Call([error |-> message])
                   /\ Fail(c, message)
             /\ UNCHANGED proof
    /\ UNCHANGED <<input, call, sent, difficultyFactor, revealed, chainConfirmations,
                   confirmations, rawTransaction, result, history>>
    /\ UNCHANGED redemptionVars
    /\ UNCHANGED eventVars
    /\ UNCHANGED solanaVars

\* const rawTransaction = await bitcoinClient.getRawTransaction(transactionHash)
ProveGetRawTransaction(c) ==
    /\ pc[c] = "proveGetRawTransaction"
    /\ bitcoinCalls' = [bitcoinCalls EXCEPT ![c] =
           Append(@, [op |-> "getRawTransaction", arg |-> input[c].transactionHash])]
    /\ \/ /\ rawTransaction' = [rawTransaction EXCEPT ![c] =
                 <<[transactionHex |-> [hash |-> input[c].transactionHash]]>>]
          /\ pc' = [pc EXCEPT ![c] = "submitRedemptionProof"]
          /\ UNCHANGED error
       \/ /\ \E message \in BitcoinErrorWords : Fail(c, message)
          /\ UNCHANGED rawTransaction
    /\ UNCHANGED <<input, call, sent, difficultyFactor, revealed, chainConfirmations,
                   confirmations, proof, result, history>>
    /\ UNCHANGED redemptionVars
    /\ UNCHANGED eventVars
    /\ UNCHANGED solanaVars

\* decomposeRawTransaction(rawTransaction): the four vectors of the transaction
decomposeRawTransaction(raw) ==
    [version |-> [versionOf |-> raw.transactionHex],
     inputs |-> [inputsOf |-> raw.transactionHex],
     outputs |-> [outputsOf |-> raw.transactionHex],
     locktime |-> [locktimeOf |-> raw.transactionHex]]

\* EthereumBridge.submitRedemptionProof, called by proveRedemption with the
\* decomposed transaction, the proof, the main UTXO and the wallet's hash, up
\* to the call of sendWithRetry
SubmitRedemptionProof(c) ==
    /\ pc[c] = "submitRedemptionProof"
    /\ call' = [call EXCEPT ![c] =
           NewSend("submitRedemptionProof",
                   [redemptionTxParam |->
                        TxParam(decomposeRawTransaction(rawTransaction[c][1])),
                    redemptionProofParam |-> ProofParam(proof[c][1]),
                    mainUtxoParam |->
                        SubmitRedemptionProofMainUtxoParam(input[c].mainUtxo),
                    walletPublicKeyHash |-> computeHash160(input[c].walletPubKeyHash)],
                   totalRetryAttempts, {})]
    /\ pc' = [pc EXCEPT ![c] = "send"]
    /\ UNCHANGED <<input, error, bitcoinCalls, sent, difficultyFactor, revealed,
                   chainConfirmations, confirmations, proof, rawTransaction, result,
                   history>>
    /\ UNCHANGED redemptionVars
    /\ UNCHANGED eventVars
    /\ UNCHANGED solanaVars

----------------------------------------------------------------------------
(* The surroundings of a gateway call: the chain, the ledger, the caller *)

\* most confirmations the Bitcoin chain reaches
MaxConfirmations == 7
\* most runs the caller starts one after the other
MaxRuns == 2

\* A block is mined on top of the transaction's block.
MineBlock ==
    /\ chainConfirmations < MaxConfirmations
    /\ chainConfirmations' = chainConfirmations + 1
    /\ UNCHANGED <<input, pc, call, error, bitcoinCalls, sent, difficultyFactor,
                   revealed, confirmations, proof, rawTransaction, result, history>>
    /\ UNCHANGED redemptionVars
    /\ UNCHANGED eventVars
    /\ UNCHANGED solanaVars

\* The ledger's governance changes the txProofDifficultyFactor parameter.
UpdateDifficultyFactor ==
    /\ \E factor \in DifficultyFactors \ {difficultyFactor} :
         difficultyFactor' = factor
    /\ UNCHANGED <<input, pc, call, error, bitcoinCalls, sent, revealed,
                   chainConfirmations, confirmations, proof, rawTransaction, result,
                   history>>
    /\ UNCHANGED redemptionVars
    /\ UNCHANGED eventVars
    /\ UNCHANGED solanaVars

GatewayTx ==
    [version |-> "version", inputs |-> "inputs", outputs |-> "outputs",
     locktime |-> "locktime"]

GatewayProof ==
    [merkleProof |-> "merkleProof", txIndexInBlock |-> 0, bitcoinHeaders |-> "headers"]

GatewayDeposit ==
    [blindingFactor |-> "blindingFactor", walletPublicKeyHash |-> "walletPublicKeyHash",
     refundPublicKeyHash |-> "refundPublicKeyHash", refundLocktime |-> "refundLocktime"]

GatewayMainUtxos ==
    [transactionHash : TransactionHashes, outputIndex : OutputIndexes, value : {100000}]

Vaults == {<<>>, <<"0xvault">>}

\* The calls of the gateway's mutating operations and of proveRedemption
GatewayInputs ==
    [operation : {"revealDeposit"}, depositTx : {GatewayTx}, depositOutputIndex : {0},
     deposit : {GatewayDeposit}, vault : Vaults]
      \cup [operation : {"submitDepositSweepProof"}, sweepTx : {GatewayTx},
            sweepProof : {GatewayProof}, mainUtxo : GatewayMainUtxos, vault : Vaults]
      \cup [operation : {"requestRedemption"},
            walletPublicKey : {getPublicKey(createKeyRing("walletWIF", FALSE))},
            mainUtxo : GatewayMainUtxos, redeemerOutputScript : RedeemerOutputScripts,
            amount : {MaxAmount}]
      \cup [operation : {"proveRedemption"}, transactionHash : {<<18, 52>>},
            mainUtxo : GatewayMainUtxos,
            walletPubKeyHash : {WalletPubKeyHash("walletWIF")}]

\* The caller starts the next operation once the one before ended.
NextRun(c) ==
    /\ pc[c] \in {"done", "failed"}
    /\ Len(history) + 1 < MaxRuns
    /\ history' = Append(history, [operation |-> input[c].operation,
                                   confirmations |-> confirmations[c]])
    /\ \E next \in GatewayInputs :
         /\ input' = [input EXCEPT ![c] = next]
         /\ pc' = [pc EXCEPT ![c] = next.operation]
    /\ call' = [call EXCEPT ![c] = NoCall]
    /\ error' = [error EXCEPT ![c] = <<>>]
    /\ bitcoinCalls' = [bitcoinCalls EXCEPT ![c] = <<>>]
    /\ sent' = [sent EXCEPT ![c] = <<>>]
    /\ confirmations' = [confirmations EXCEPT ![c] = <<>>]
    /\ proof' = [proof EXCEPT ![c] = <<>>]
    /\ rawTransaction' = [rawTransaction EXCEPT ![c] = <<>>]
    /\ result' = [result EXCEPT ![c] = <<>>]
    /\ UNCHANGED <<difficultyFactor, revealed, chainConfirmations>>
    /\ UNCHANGED redemptionVars
    /\ UNCHANGED eventVars
    /\ UNCHANGED solanaVars

GatewayInit ==
    /\ input \in [InitialCycles -> GatewayInputs]
    /\ pc = [c \in InitialCycles |-> input[c].operation]
    /\ call = [c \in InitialCycles |-> NoCall]
    /\ error = [c \in InitialCycles |-> <<>>]
    /\ bitcoinCalls = [c \in InitialCycles |-> <<>>]
    /\ RedemptionIdle
    /\ sent = [c \in InitialCycles |-> <<>>]
    /\ difficultyFactor \in DifficultyFactors
    /\ revealed \in SUBSET {[fundingTx |-> TxParam(GatewayTx), fundingOutputIndex |-> 0]}
    /\ chainConfirmations = 0
    /\ confirmations = [c \in InitialCycles |-> <<>>]
    /\ proof = [c \in InitialCycles |-> <<>>]
    /\ rawTransaction = [c \in InitialCycles |-> <<>>]
    /\ result = [c \in InitialCycles |-> <<>>]
    /\ history = <<>>
    /\ events = <<>>
    /\ accounts = <<>>
    /\ minted = 0

\* The steps of the gateway and of proveRedemption
GatewayStep ==
    \/ \E c \in Cycles : RevealDeposit(c)
    \/ \E c \in Cycles : SubmitDepositSweepProof(c)
    \/ \E c \in Cycles : RequestRedemption(c)
    \/ \E c \in Cycles : SendAccepted(c)
    \/ \E c \in Cycles : SendRejected(c)
    \/ \E c \in Cycles : SendLost(c)
    \/ \E c \in Cycles : ProveRedemption(c)
    \/ \E c \in Cycles : TxProofDifficultyFactorSucceeds(c)
    \/ \E c \in Cycles : TxProofDifficultyFactorFails(c)
    \/ \E c \in Cycles : CreateTransactionProof(c)
    \/ \E c \in Cycles : ProveGetRawTransaction(c)
    \/ \E c \in Cycles : SubmitRedemptionProof(c)

GatewayNext ==
    \/ GatewayStep
    \/ MineBlock
    \/ UpdateDifficultyFactor
    \/ \E c \in Cycles : NextRun(c)

GatewaySpec == GatewayInit /\ [][GatewayNext]_vars

\* Every awaited call settles and every continuation that can run is run.
FairGatewaySpec == GatewaySpec /\ WF_vars(GatewayStep)

----------------------------------------------------------------------------
(* The gateway's event queries *)

\* most events other parties cause while the cycle works
MaxEvents == 2

\* Events other parties cause on the ledger, one of each kind
ForeignEvents ==
    {[name |-> "DepositRevealed",
      args |-> [fundingTxHash |-> <<1, 2>> \o Bytes(30, 7), fundingOutputIndex |-> 1,
                depositor |-> "0xother", amount |-> MaxAmount,
                blindingFactor |-> "blindingFactor",
                walletPubKeyHash |-> "walletPublicKeyHash",
                refundPubKeyHash |-> "refundPublicKeyHash",
                refundLocktime |-> "refundLocktime", vault |-> "0xvault"]],
     [name |-> "RedemptionRequested",
      args |-> [walletPubKeyHash |-> "walletPublicKeyHash", redeemer |-> "0xother",
                redeemerOutputScript |-> PrefixedRawRedeemerOutputScript(<<0, 20>>),
                requestedAmount |-> MaxAmount, treasuryFee |-> 0, txMaxFee |-> 1]],
     [name |-> "NewWalletRegistered",
      args |-> [ecdsaWalletID |-> "ecdsaWalletID",
                walletPubKeyHash |-> "walletPublicKeyHash"]]}

\* Another party's transaction is mined and logs its event.
EmitEvent ==
    /\ Len(events) < MaxEvents + Len(history)
    /\ \E event \in ForeignEvents :
         events' = Append(events, Logged(event, <<"hash of another", event.name>>))
    /\ UNCHANGED <<input, pc, call, error, bitcoinCalls>>
    /\ UNCHANGED redemptionVars
    /\ UNCHANGED gatewayVars
    /\ UNCHANGED solanaVars

\* getEvents(name, options): the log's events of that name, from the block
\* the options name on, oldest first
GetEvents(name, options) ==
    SelectSeq(events,
              LAMBDA event : /\ event.name = name
                             /\ event.blockNumber >= options.fromBlock)

\* The error of a compact size uint that the reader does not take
ErrCompactSizeUint == <<"unsupported", "compact", "size", "uint">>

\* BitcoinCompactSizeUint.read(data).byteLength: a first byte below 0xfd is the
\* value itself; 0xfd, 0xfe and 0xff announce a value of 2, 4 and 8 bytes,
\* which the reader either takes or refuses.  `takesLong` tells which.
CompactSizeUintByteLength(data, takesLong) ==
    IF data[1] < 253 THEN [ok |-> 1]
    ELSE IF ~takesLong THEN [error |-> ErrCompactSizeUint]
    ELSE IF data[1] = 253 THEN [ok |-> 3]
    ELSE IF data[1] = 254 THEN [ok |-> 5]
    ELSE [ok |-> 9]

\* hex.slice(n * 2): the bytes after the first n
SliceBytes(bytes, n) == SubSeq(bytes, n + 1, Len(bytes))

\* prefixed.toString().slice(read(prefixed).byteLength * 2)
StripPrefix(prefixed, byteLength) == SliceBytes(prefixed, byteLength)

\* The record getDepositRevealedEvents makes of a raw event
DecodeDepositRevealed(event) ==
    [blockNumber |-> event.blockNumber,
     blockHash |-> event.blockHash,
     transactionHash |-> event.transactionHash,
     fundingTxHash |-> Reverse(event.args.fundingTxHash),
     fundingOutputIndex |-> event.args.fundingOutputIndex,
     depositor |-> event.args.depositor,
     amount |-> event.args.amount,
     blindingFactor |-> event.args.blindingFactor,
     walletPublicKeyHash |-> event.args.walletPubKeyHash,
     refundPublicKeyHash |-> event.args.refundPubKeyHash,
     refundLocktime |-> event.args.refundLocktime,
     vault |-> IF event.args.vault = "AddressZero" THEN <<>> ELSE <<event.args.vault>>]

\* The record getNewWalletRegisteredEvents makes of a raw event
DecodeNewWalletRegistered(event) ==
    [blockNumber |-> event.blockNumber,
     blockHash |-> event.blockHash,
     transactionHash |-> event.transactionHash,
     ecdsaWalletID |-> event.args.ecdsaWalletID,
     walletPublicKeyHash |-> event.args.walletPubKeyHash]

\* The record getRedemptionRequestedEvents makes of a raw event whose script
\* prefix was read as `byteLength` bytes
DecodeRedemptionRequested(event, byteLength) ==
    [blockNumber |-> event.blockNumber,
     blockHash |-> event.blockHash,
     transactionHash |-> event.transactionHash,
     walletPublicKeyHash |-> event.args.walletPubKeyHash,
     redeemer |-> event.args.redeemer,
     redeemerOutputScript |-> StripPrefix(event.args.redeemerOutputScript, byteLength),
     requestedAmount |-> event.args.requestedAmount,
     treasuryFee |-> event.args.treasuryFee,
     txMaxFee |-> event.args.txMaxFee]

\* The event each query asks for
EventNames ==
    [getDepositRevealedEvents |-> "DepositRevealed",
     getRedemptionRequestedEvents |-> "RedemptionRequested",
     getNewWalletRegisteredEvents |-> "NewWalletRegistered"]

\* Faulty variant: the records come out newest first.
MapIndexReversed(raw, k) == Len(raw) + 1 - k

\* events.map(...): the record at position k is made of the event at position k
MapIndex(raw, k) == k

\* events.map(decode) of the query `operation`: the records, or the error of
\* the first event whose decoding throws
MapEvents(operation, raw, takesLong) ==
    LET Read(event) ==
            CompactSizeUintByteLength(event.args.redeemerOutputScript, takesLong)
        refused == {k \in 1 .. Len(raw) :
                       /\ operation = "getRedemptionRequestedEvents"
                       /\ "error" \in DOMAIN Read(raw[k])}
    IN IF refused # {}
       THEN [error |-> ErrCompactSizeUint]
       ELSE [ok |-> [k \in 1 .. Len(raw) |->
                LET event == raw[MapIndex(raw, k)]
                IN IF operation = "getDepositRevealedEvents"
                   THEN DecodeDepositRevealed(event)
                   ELSE IF operation = "getNewWalletRegisteredEvents"
                   THEN DecodeNewWalletRegistered(event)
                   ELSE DecodeRedemptionRequested(event, Read(event).ok)]]

\* One of the three event queries: the raw events are fetched, then decoded
\* one by one.
QueryEvents(c) ==
    /\ pc[c] \in DOMAIN EventNames
    /\ LET name == EventNames[pc[c]]
           raw == GetEvents(name, input[c].options)
           Asked(response) ==
               sent' = [sent EXCEPT ![c] =
                   Append(@, [method |-> "getEvents",
                              params |-> [name |-> name, options |-> input[c].options],
                              response |-> response])]
       IN \/ \E takesLong \in BOOLEAN :
               LET mapped == MapEvents(pc[c], raw, takesLong)
               IN /\ Asked([ok |-> raw])
                  /\ IF "error" \in DOMAIN mapped
                     THEN /\ Fail(c, mapped.error)
                          /\ UNCHANGED result
                     ELSE Return(c, mapped.ok)
          \/ \E message \in RpcErrorWords :
               /\ Asked([error |-> message])
               /\ Fail(c, message)
               /\ UNCHANGED result
    /\ UNCHANGED <<input, call, bitcoinCalls, difficultyFactor, revealed,
                   chainConfirmations, confirmations, proof, rawTransaction, history>>
    /\ UNCHANGED redemptionVars
    /\ UNCHANGED eventVars
    /\ UNCHANGED solanaVars

\* Redeemer output scripts of 1, 22, 252, 253, 255 and 256 bytes
EventScripts ==
    {<<118>>, <<0, 20>> \o Bytes(20, 17), Bytes(252, 118), Bytes(253, 118),
     Bytes(255, 118), Bytes(256, 118)}

\* The calls that cause events and the calls that query them
EventInputs ==
    [operation : {"revealDeposit"}, depositTx : {GatewayTx}, depositOutputIndex : {0},
     deposit : {GatewayDeposit}, vault : Vaults]
      \cup [operation : {"requestRedemption"},
            walletPublicKey : {getPublicKey(createKeyRing("walletWIF", FALSE))},
            mainUtxo : GatewayMainUtxos, redeemerOutputScript : EventScripts,
            amount : {MaxAmount}]
      \cup [operation : DOMAIN EventNames, options : [fromBlock : {0, 2}]]

\* The caller starts the next call once the one before ended.
NextEventRun(c) ==
    /\ pc[c] \in {"done", "failed"}
    /\ Len(history) + 1 < MaxRuns
    /\ history' = Append(history, [operation |-> input[c].operation,
                                   confirmations |-> confirmations[c]])
    /\ \E next \in EventInputs :
         /\ input' = [input EXCEPT ![c] = next]
         /\ pc' = [pc EXCEPT ![c] = next.operation]
    /\ call' = [call EXCEPT ![c] = NoCall]
    /\ error' = [error EXCEPT ![c] = <<>>]
    /\ sent' = [sent EXCEPT ![c] = <<>>]
    /\ result' = [result EXCEPT ![c] = <<>>]
    /\ UNCHANGED <<bitcoinCalls, difficultyFactor, revealed, chainConfirmations,
                   confirmations, proof, rawTransaction>>
    /\ UNCHANGED redemptionVars
    /\ UNCHANGED eventVars
    /\ UNCHANGED solanaVars

EventInit ==
    /\ input \in [InitialCycles -> EventInputs]
    /\ pc = [c \in InitialCycles |-> input[c].operation]
    /\ call = [c \in InitialCycles |-> NoCall]
    /\ error = [c \in InitialCycles |-> <<>>]
    /\ bitcoinCalls = [c \in InitialCycles |-> <<>>]
    /\ RedemptionIdle
    /\ sent = [c \in InitialCycles |-> <<>>]
    /\ difficultyFactor = 0
    /\ revealed = {}
    /\ chainConfirmations = 0
    /\ confirmations = [c \in InitialCycles |-> <<>>]
    /\ proof = [c \in InitialCycles |-> <<>>]
    /\ rawTransaction = [c \in InitialCycles |-> <<>>]
    /\ result = [c \in InitialCycles |-> <<>>]
    /\ history = <<>>
    /\ events = <<>>
    /\ accounts = <<>>
    /\ minted = 0

EventNext ==
    \/ \E c \in Cycles : RevealDeposit(c)
    \/ \E c \in Cycles : RequestRedemption(c)
    \/ \E c \in Cycles : SendAccepted(c)
    \/ \E c \in Cycles : SendRejected(c)
    \/ \E c \in Cycles : SendLost(c)
    \/ \E c \in Cycles : QueryEvents(c)
    \/ \E c \in Cycles : NextEventRun(c)
    \/ EmitEvent

EventSpec == EventInit /\ [][EventNext]_vars

----------------------------------------------------------------------------
(* Properties of the transaction builder *)

\* createRedemptionTransaction returned a transaction to cycle c
Returned(c) == transaction[c] # <<>>

ReturnedTx(c) == transaction[c][1].transactionHex

\* The sum of the txMaxFee of the requests of cycle c
SumOfTxMaxFee(c) ==
    Sum([k \in 1 .. Len(redemptionRequests[c]) |-> redemptionRequests[c][k].txMaxFee])

\* The sum of requestedAmount - txMaxFee - treasuryFee over the requests of cycle c
SumOfRedemptionValues(c) ==
    Sum([k \in 1 .. Len(redemptionRequests[c]) |->
            redemptionRequests[c][k].requestedAmount
              - redemptionRequests[c][k].txMaxFee
              - redemptionRequests[c][k].treasuryFee])

\* C1: in a returned transaction the i-th output pays request i: its value is
\* requestedAmount - txMaxFee - treasuryFee and its script is the request's
\* redeemerOutputScript; the requests are neither skipped, doubled nor reordered.
C1_OutputPerRequest ==
    \A c \in Cycles :
        Returned(c) =>
            LET tx == ReturnedTx(c)
                requests == redemptionRequests[c]
            IN /\ Len(requests) >= 1
               /\ Len(tx.outputs) \in {Len(requests), Len(requests) + 1}
               /\ \A i \in 1 .. Len(requests) :
                    /\ tx.outputs[i].value =
                           requests[i].requestedAmount - requests[i].txMaxFee
                             - requests[i].treasuryFee
                    /\ tx.outputs[i].script = [raw |-> requests[i].redeemerOutputScript]
                    /\ requests[i].redeemerOutputScript = input[c].redeemerOutputScripts[i]

\* Two requests with different scripts and different output values were paid.
C1_Witness ==
    \E c \in Cycles :
        /\ Returned(c)
        /\ Len(redemptionRequests[c]) = 2
        /\ ReturnedTx(c).outputs[1].script # ReturnedTx(c).outputs[2].script
        /\ ReturnedTx(c).outputs[1].value > ReturnedTx(c).outputs[2].value
        /\ redemptionRequests[c][1].treasuryFee > 0

\* C2: a returned transaction has a change output, locked to the wallet's own
\* address and placed after the redemption outputs, exactly when
\* fundingValue - (redemption values) - (sum of txMaxFee) > 0; its value is that
\* difference; when the difference is 0 there is no change output.
C2_ChangeOutput ==
    \A c \in Cycles :
        Returned(c) =>
            LET tx == ReturnedTx(c)
                n == Len(redemptionRequests[c])
                difference ==
                    input[c].mainUtxo.value - SumOfRedemptionValues(c) - SumOfTxMaxFee(c)
                ownAddress ==
                    [type |-> IF input[c].witness THEN "p2wpkh" ELSE "p2pkh",
                     hash |-> [hash160 |-> [publicKeyOf |-> input[c].walletPrivateKey]]]
            IN /\ difference >= 0
               /\ difference > 0 =>
                    /\ Len(tx.outputs) = n + 1
                    /\ tx.outputs[n + 1] =
                           [script |-> [address |-> ownAddress], value |-> difference]
               /\ difference = 0 => Len(tx.outputs) = n

\* A transaction with a change output was returned.
C2_Witness ==
    \E c \in Cycles :
        /\ Returned(c)
        /\ Len(ReturnedTx(c).outputs) = Len(redemptionRequests[c]) + 1
        /\ input[c].mainUtxo.value - SumOfRedemptionValues(c) - SumOfTxMaxFee(c) > 0
        /\ SumOfTxMaxFee(c) > 0

\* C3: in a returned transaction the fee, the funding UTXO's value minus the
\* value of all outputs, is the sum of the requests' txMaxFee.
C3_FeeIsSumOfTxMaxFee ==
    \A c \in Cycles :
        Returned(c) =>
            input[c].mainUtxo.value - OutputsValue(ReturnedTx(c)) = SumOfTxMaxFee(c)

\* A transaction over two requests with a fee and a treasury fee was returned.
C3_Witness ==
    \E c \in Cycles :
        /\ Returned(c)
        /\ Len(redemptionRequests[c]) = 2
        /\ SumOfTxMaxFee(c) > 0
        /\ \E i \in 1 .. 2 : redemptionRequests[c][i].treasuryFee
                               # redemptionRequests[c][i].txMaxFee

\* The worked example is the input of cycle c's builder.
IsExample(c) ==
    /\ input[c].mainUtxo.value = 100000
    /\ Len(input[c].redeemerOutputScripts) = 1
    /\ Len(redemptionRequests[c]) = 1
    /\ redemptionRequests[c][1].requestedAmount = 50000
    /\ redemptionRequests[c][1].treasuryFee = 100
    /\ redemptionRequests[c][1].txMaxFee = 400

BuilderErrors == {ErrNoRequests, ErrOutputValue, ErrFunding}

\* C4 as stated: for a funding UTXO of 100,000 and the single request {50,000,
\* treasury fee 100, txMaxFee 400} the builder returns one redemption output of
\* 49,500 and one change output of 49,600, with a fee of 400.
C4_ExampleAsStated ==
    \A c \in Cycles :
        (IsExample(c) /\ Returned(c)) =>
            /\ Len(ReturnedTx(c).outputs) = 2
            /\ ReturnedTx(c).outputs[1].value = 49500
            /\ ReturnedTx(c).outputs[2].value = 49600
            /\ builder[c].txTotalFee = 400

\* C4, amended: for a funding UTXO of 100,000 and the single request {50,000,
\* treasury fee 100, txMaxFee 400} the builder does not fail and returns one
\* redemption output of 49,500 and one change output of 50,100
\* (100,000 - 49,500 - 400), with a fee of 400.
C4_Example ==
    \A c \in Cycles :
        IsExample(c) =>
            /\ error[c] \notin BuilderErrors
            /\ Returned(c) =>
                 /\ Len(ReturnedTx(c).outputs) = 2
                 /\ ReturnedTx(c).outputs[1].value = 49500
                 /\ ReturnedTx(c).outputs[1].script =
                        [raw |-> redemptionRequests[c][1].redeemerOutputScript]
                 /\ ReturnedTx(c).outputs[2].value = 50100
                 /\ ReturnedTx(c).outputs[2].script \notin
                        {[raw |-> r] : r \in RedeemerOutputScripts}
                 /\ builder[c].txTotalFee = 400
                 /\ input[c].mainUtxo.value - OutputsValue(ReturnedTx(c)) = 400

\* The builder returned a transaction for the worked example.
C4_Witness == \E c \in Cycles : IsExample(c) /\ Returned(c)

\* C5: a returned transaction has exactly one input, the outpoint of the main
\* UTXO, however many requests it pays.
C5_SingleInput ==
    \A c \in Cycles :
        Returned(c) =>
            ReturnedTx(c).inputs =
                <<[hash |-> input[c].mainUtxo.transactionHash,
                   index |-> input[c].mainUtxo.outputIndex]>>

\* A transaction paying two requests was returned.
C5_Witness ==
    \E c \in Cycles :
        /\ Returned(c)
        /\ Len(redemptionRequests[c]) = 2
        /\ Len(ReturnedTx(c).inputs) = 1

\* Positions of makeRedemptions before createRedemptionTransaction is entered
BeforeBuilder ==
    {"getRawTransaction", "fetchRedemptionRequests", "pendingRedemptions",
     "checkPendingRedemption", "createRedemptionTransaction"}

\* The list createRedemptionTransaction is called with is complete in cycle c
ListComplete(c) ==
    /\ mainUtxoWithRaw[c] # <<>>
    /\ Len(redemptionRequests[c]) = Len(input[c].redeemerOutputScripts)

\* Nothing was funded, signed or returned in cycle c
NothingSigned(c) ==
    /\ builder[c].transaction.inputs = <<>>
    /\ ~builder[c].transaction.signed
    /\ transaction[c] = <<>>

\* C6 as stated: a request with requestedAmount <= txMaxFee + treasuryFee makes
\* the builder fail before signing, so no transaction is returned for it.
C6_AsStated ==
    \A c \in Cycles :
        (\E i \in 1 .. Len(redemptionRequests[c]) :
            redemptionRequests[c][i].requestedAmount
                <= redemptionRequests[c][i].txMaxFee + redemptionRequests[c][i].treasuryFee)
            => NothingSigned(c)

\* Some request of cycle c asks for less than its two fees
HasNegativeOutput(c) ==
    \E i \in 1 .. Len(redemptionRequests[c]) :
        redemptionRequests[c][i].requestedAmount
            < redemptionRequests[c][i].txMaxFee + redemptionRequests[c][i].treasuryFee

\* C6, amended: a request with requestedAmount < txMaxFee + treasuryFee makes
\* the builder fail, when its output is added, before anything is funded or
\* signed, and no transaction is returned; the builder checks nothing else of
\* the amounts (an amount equal to the fees gives an output of value 0).
C6_NegativeOutputRejected ==
    \A c \in Cycles :
        HasNegativeOutput(c) =>
            /\ NothingSigned(c)
            /\ pc[c] \notin {"fund", "sign", "broadcast", "done"}
            /\ (ListComplete(c) /\ pc[c] = "failed") => error[c] = ErrOutputValue

\* The builder failed on the second of two requests, whose amount is below its fees.
C6_Witness ==
    \E c \in Cycles :
        /\ HasNegativeOutput(c)
        /\ ListComplete(c)
        /\ pc[c] = "failed"
        /\ error[c] = ErrOutputValue
        /\ Len(builder[c].transaction.outputs) = 1

\* C7: called with an empty list the builder fails at once: nothing is built,
\* funded or signed; a transaction is returned only for a list of at least one
\* request.
C7_EmptyListRejected ==
    \A c \in Cycles :
        /\ Returned(c) => Len(redemptionRequests[c]) >= 1
        /\ (ListComplete(c) /\ Len(redemptionRequests[c]) = 0
              /\ pc[c] \notin BeforeBuilder) =>
                /\ pc[c] = "failed"
                /\ error[c] = ErrNoRequests
                /\ builder[c] = NewBuilder
                /\ transaction[c] = <<>>

\* The builder was called with the empty list and failed.
C7_Witness ==
    \E c \in Cycles :
        /\ ListComplete(c)
        /\ redemptionRequests[c] = <<>>
        /\ pc[c] = "failed"
        /\ error[c] = ErrNoRequests

\* The places of the broadcast calls in the Bitcoin client calls of cycle c
Broadcasts(c) ==
    {k \in 1 .. Len(bitcoinCalls[c]) : bitcoinCalls[c][k].op = "broadcast"}

\* C8: the builder makes no call to the Bitcoin client; makeRedemptions calls
\* broadcast at most once, only after the raw transaction was fetched, every
\* request was looked up and the builder returned, and with the transaction
\* the builder returned.
C8_BroadcastOnceAfterBuild ==
    \A c \in Cycles :
        /\ Cardinality(Broadcasts(c)) <= 1
        /\ (pc[c] \in {"processRequests", "fund", "sign", "broadcast"}
              \/ error[c] \in BuilderErrors) =>
                bitcoinCalls[c] =
                    <<[op |-> "getRawTransaction",
                       arg |-> input[c].mainUtxo.transactionHash]>>
        /\ ~Returned(c) => Broadcasts(c) = {}
        /\ Broadcasts(c) # {} =>
             /\ Broadcasts(c) = {2}
             /\ Len(bitcoinCalls[c]) = 2
             /\ bitcoinCalls[c][1].op = "getRawTransaction"
             /\ bitcoinCalls[c][2].arg = transaction[c][1]
             /\ bitcoinCalls[c][2].arg.transactionHex.signed
             /\ ListComplete(c)
             /\ Len(gatewayCalls[c]) = Len(input[c].redeemerOutputScripts)
             /\ pc[c] \in {"done", "failed"}

\* The transaction of two requests was broadcast.
C8_Witness ==
    \E c \in Cycles :
        /\ pc[c] = "done"
        /\ Broadcasts(c) = {2}
        /\ Len(redemptionRequests[c]) = 2

\* C9 as stated: the gateway's pendingRedemptions never returns a request whose
\* requestedAt is 0.
C9_AsStated ==
    \A c \in Cycles :
        pendingRedemption[c] # <<>> => pendingRedemption[c][1].requestedAt # 0

\* C9, amended: the gateway's pendingRedemptions returns the ledger's record as
\* it is, also with requestedAt = 0; it is fetchRedemptionRequests that fails,
\* with its "do not identify a pending redemption" error, whenever the record
\* the gateway returned has requestedAt = 0, and that collects no such record.
C9_ZeroRequestedAtFailsTheFetch ==
    \A c \in Cycles :
        /\ \A i \in 1 .. Len(redemptionRequests[c]) :
             redemptionRequests[c][i].requestedAt # 0
        /\ pendingRedemption[c] # <<>> =>
             LET returned == pendingRedemption[c][1]
                 stored == ledger[CurrentCall(c).redemptionKey]
             IN /\ returned.requestedAt = stored.requestedAt
                /\ returned.requestedAmount = stored.requestedAmount
                /\ (returned.requestedAt = 0 /\ pc[c] # "checkPendingRedemption") =>
                     /\ pc[c] = "failed"
                     /\ error[c] = ErrNotPending
                     /\ transaction[c] = <<>>

\* The second lookup returned a record with requestedAt = 0 and the fetch failed.
C9_Witness ==
    \E c \in Cycles :
        /\ pendingRedemption[c] # <<>>
        /\ pendingRedemption[c][1].requestedAt = 0
        /\ Len(redemptionRequests[c]) = 1
        /\ pc[c] = "failed"
        /\ error[c] = ErrNotPending

\* C10: when every attempt of the retried ledger call fails, the call was made
\* exactly the configured number of times and the error thrown to the caller
\* is the error of the last attempt, as it was; never are more attempts made.
C10_RetriesExhausted ==
    \A c \in Cycles :
        /\ call[c].attempts <= totalRetryAttempts
        /\ Len(call[c].errors) = call[c].attempts
        /\ (pc[c] = "pendingRedemptions" /\ call[c].attempts > 0) =>
             call[c].attempts < totalRetryAttempts
        /\ (pc[c] = "failed" /\ call[c].attempts > 0) =>
             /\ call[c].attempts = totalRetryAttempts
             /\ error[c] = call[c].errors[totalRetryAttempts]

\* Every attempt failed, the last with another error than the first.
C10_Witness ==
    \E c \in Cycles :
        /\ pc[c] = "failed"
        /\ call[c].attempts = totalRetryAttempts
        /\ call[c].errors[1] # call[c].errors[totalRetryAttempts]
        /\ error[c] = call[c].errors[totalRetryAttempts]

----------------------------------------------------------------------------
(* Properties of the gateway's keys *)

\* Cycle c called the key function `operation` and it returned a key
KeyReturned(c, operation) ==
    /\ "operation" \in DOMAIN input[c]
    /\ input[c].operation = operation
    /\ pc[c] = "done"

\* Cycle c called buildRedemptionKey and the call ended
RedemptionKeyCallEnded(c) ==
    /\ "operation" \in DOMAIN input[c]
    /\ input[c].operation = "buildRedemptionKey"
    /\ pc[c] \in {"done", "failed"}

\* C14: for a 20-byte wallet public key hash and a script of at most 255 bytes
\* buildRedemptionKey returns H(H(lengthByte || script) || walletPublicKeyHash),
\* lengthByte being the script's length: the digest of the prefixed script is
\* packed first, the wallet hash second.
C14_RedemptionKeyLayout ==
    \A c \in Cycles :
        (/\ RedemptionKeyCallEnded(c)
         /\ Len(input[c].walletPublicKeyHash) = 20
         /\ Len(input[c].redeemerOutputScript) <= 255) =>
            /\ pc[c] = "done"
            /\ result[c] =
                   <<[keccak256 |->
                        <<[keccak256 |-> <<Len(input[c].redeemerOutputScript)>>
                                            \o input[c].redeemerOutputScript],
                          input[c].walletPublicKeyHash>>]>>

\* The key of a 255-byte script was built.
C14_Witness ==
    \E c \in Cycles :
        /\ KeyReturned(c, "buildRedemptionKey")
        /\ Len(input[c].redeemerOutputScript) = 255
        /\ result[c][1].keccak256[2] = input[c].walletPublicKeyHash

\* C15 as stated: for every pair, the call with the two inputs swapped produces
\* a key, and that key differs from the pair's key.
C15_AsStated ==
    \A c \in Cycles :
        KeyReturned(c, "buildRedemptionKey") =>
            /\ IsBytesN(input[c].redeemerOutputScript, 20)
            /\ buildRedemptionKey(input[c].redeemerOutputScript,
                                  input[c].walletPublicKeyHash) # result[c][1]

\* C15, amended: the key is a function of the two inputs in their order: for a
\* pair of two different values the call with the inputs swapped never returns
\* the pair's key; it returns a different key when the script is 20 bytes long,
\* and is rejected (the script is no bytes20) when it is not.  Swapping a
\* pair of equal values is the same call.
C15_OrderSensitive ==
    \A c \in Cycles :
        RedemptionKeyCallEnded(c) =>
            LET w == input[c].walletPublicKeyHash
                s == input[c].redeemerOutputScript
            IN /\ ~IsBytesN(w, 20) =>
                    /\ pc[c] = "failed"
                    /\ error[c] = ErrBytes20
                    /\ result[c] = <<>>
               /\ pc[c] = "done" =>
                    /\ result[c][1] = buildRedemptionKey(w, s)
                    /\ (w # s /\ IsBytesN(s, 20)) =>
                           buildRedemptionKey(s, w) # result[c][1]

\* The key of two different 20-byte values was built.
C15_Witness ==
    \E c \in Cycles :
        /\ KeyReturned(c, "buildRedemptionKey")
        /\ input[c].walletPublicKeyHash # input[c].redeemerOutputScript
        /\ IsBytesN(input[c].redeemerOutputScript, 20)

\* C16 as stated: buildRedemptionKey fails for a script of more than 255 bytes,
\* and a key it returns is computed from a length byte equal to the script's
\* length.
C16_AsStated ==
    \A c \in Cycles :
        KeyReturned(c, "buildRedemptionKey") =>
            /\ Len(input[c].redeemerOutputScript) <= 255
            /\ result[c][1].keccak256[1].keccak256[1] = Len(input[c].redeemerOutputScript)

\* C17: the keys of two different output indices of one transaction differ.
C17_IndexTakesPart ==
    \A c \in Cycles :
        KeyReturned(c, "buildDepositKey") =>
            \A j \in DepositOutputIndexes \ {input[c].depositOutputIndex} :
                buildDepositKey(input[c].depositTxHash, j) # result[c][1]

\* The key of output 256 was built.
C17_Witness ==
    \E c \in Cycles :
        /\ KeyReturned(c, "buildDepositKey")
        /\ input[c].depositOutputIndex = 256

\* The four bytes of a uint32, most significant first
FourBytes(n) ==
    <<(n \div 16777216) % 256, (n \div 65536) % 256, (n \div 256) % 256, n % 256>>

\* The bytes of `hash` in the opposite order
Reversed(hash) == [k \in 1 .. Len(hash) |-> hash[Len(hash) - k + 1]]

\* C18: buildDepositKey returns H(reverse(txHash) || 4-byte index) and
\* buildUtxoHash returns H(reverse(txHash) || 4-byte index || 8-byte value),
\* never the digest of the hash as given; the hash the caller holds after the
\* call is the one it passed in.
C18_ReversedHashIsHashed ==
    \A c \in Cycles :
        /\ KeyReturned(c, "buildDepositKey") =>
             /\ result[c][1] =
                    [keccak256 |-> Reversed(input[c].depositTxHash)
                                     \o FourBytes(input[c].depositOutputIndex)]
             /\ result[c][1] #
                    [keccak256 |-> input[c].depositTxHash
                                     \o FourBytes(input[c].depositOutputIndex)]
        /\ KeyReturned(c, "buildUtxoHash") =>
             /\ result[c][1] =
                    [keccak256 |-> Reversed(input[c].utxo.transactionHash)
                                     \o FourBytes(input[c].utxo.outputIndex)
                                     \o <<0, 0, 0, 0>>
                                     \o FourBytes(input[c].utxo.value)]
             /\ result[c][1] #
                    [keccak256 |-> input[c].utxo.transactionHash
                                     \o FourBytes(input[c].utxo.outputIndex)
                                     \o <<0, 0, 0, 0>>
                                     \o FourBytes(input[c].utxo.value)]

\* The hash of a UTXO of 100,000 satoshi at output 256 was built.
C18_Witness ==
    \E c \in Cycles :
        /\ KeyReturned(c, "buildUtxoHash")
        /\ input[c].utxo.value = 100000
        /\ input[c].utxo.outputIndex = 256

----------------------------------------------------------------------------
(* Properties of the gateway's operations and of proveRedemption *)

\* Cycle c runs the operation `operation`
Runs(c, operation) ==
    /\ "operation" \in DOMAIN input[c]
    /\ input[c].operation = operation

\* C11: a revealDeposit whose ledger call is rejected with a message containing
\* "already revealed" completes: no error is thrown to the caller, a value is
\* returned, and no attempt follows the rejection.
C11_AlreadyRevealedIsSuccess ==
    \A c \in Cycles :
        Runs(c, "revealDeposit") =>
            \A k \in 1 .. Len(call[c].errors) :
                Includes(call[c].errors[k], <<"already", "revealed">>) =>
                    /\ k = Len(call[c].errors)
                    /\ Len(sent[c]) = k
                    /\ sent[c][k].response = [error |-> call[c].errors[k]]
                    /\ pc[c] = "done"
                    /\ error[c] = <<>>
                    /\ result[c] # <<>>

\* The ledger accepted the first attempt, whose answer was lost; the second
\* attempt was rejected as already revealed and revealDeposit completed.
C11_Witness ==
    \E c \in Cycles :
        /\ Runs(c, "revealDeposit")
        /\ pc[c] = "done"
        /\ Len(call[c].errors) = 2
        /\ call[c].errors[1] \in RpcErrorWords
        /\ Includes(call[c].errors[2], <<"already", "revealed">>)
        /\ error[c] = <<>>

\* C12: whatever the remote does, also when it fails forever, a retried ledger
\* call that was started ends: the read with its result or its final failure,
\* the transaction with its completion or its final failure.
C12_RetriedCallsFinish ==
    \A c \in InitialCycles :
        /\ (pc[c] = "txProofDifficultyFactor")
              ~> (pc[c] \in {"createTransactionProof", "failed"})
        /\ (pc[c] = "send") ~> (pc[c] \in {"done", "failed"})

\* Every attempt of a submitDepositSweepProof failed and the call ended.
C12_Witness ==
    \E c \in Cycles :
        /\ Runs(c, "submitDepositSweepProof")
        /\ pc[c] = "failed"
        /\ call[c].attempts = totalRetryAttempts
        /\ error[c] = call[c].errors[totalRetryAttempts]

\* The requests of cycle c that carry a main UTXO
MainUtxoRequests(c) ==
    {k \in 1 .. Len(sent[c]) :
        sent[c][k].method \in {"submitDepositSweepProof", "submitRedemptionProof",
                               "requestRedemption"}}

\* C13: every request of submitDepositSweepProof, submitRedemptionProof and
\* requestRedemption carries, as its main UTXO, the byte-reversal of the
\* caller's transaction hash with the caller's output index and value; the
\* hash as the caller gave it is not sent.
C13_MainUtxoHashReversed ==
    \A c \in Cycles :
        \A k \in MainUtxoRequests(c) :
            LET given == input[c].mainUtxo
                param == sent[c][k].params.mainUtxoParam
            IN /\ sent[c][k].method \in {input[c].operation, "submitRedemptionProof"}
               /\ param.txHash = Reversed(given.transactionHash)
               /\ param.txHash # given.transactionHash
               /\ param.txOutputIndex = given.outputIndex
               /\ param.txOutputValue = given.value

\* A redemption proof was submitted twice, the second time with success.
C13_Witness ==
    \E c \in Cycles :
        /\ Runs(c, "proveRedemption")
        /\ pc[c] = "done"
        /\ Len(sent[c]) >= 3
        /\ MainUtxoRequests(c) # {}

\* The answered reads of the confirmation depth in the requests of cycle c
DepthReads(c) ==
    {k \in 1 .. Len(sent[c]) :
        /\ sent[c][k].method = "txProofDifficultyFactor"
        /\ "ok" \in DOMAIN sent[c][k].response}

\* The submissions of the redemption proof in the requests of cycle c
ProofSubmissions(c) ==
    {k \in 1 .. Len(sent[c]) : sent[c][k].method = "submitRedemptionProof"}

\* C19: a proveRedemption run reads the ledger's depth itself, then asks for
\* the proof with the depth it just read, then fetches the raw transaction,
\* then submits the proof; a step is made only when every step before it
\* succeeded, so nothing is submitted without a proof and a raw transaction.
C19_ProveRedemptionOrder ==
    \A c \in Cycles :
        Runs(c, "proveRedemption") =>
            /\ Len(bitcoinCalls[c]) <= 2
            /\ Cardinality(DepthReads(c)) <= 1
            /\ confirmations[c] # <<>> <=> DepthReads(c) # {}
            /\ Len(bitcoinCalls[c]) >= 1 =>
                 /\ bitcoinCalls[c][1].op = "createTransactionProof"
                 /\ \E k \in DepthReads(c) :
                      /\ \A j \in 1 .. Len(sent[c]) :
                           sent[c][j].method = "txProofDifficultyFactor" => j <= k
                      /\ bitcoinCalls[c][1].arg.requiredConfirmations =
                             sent[c][k].response.ok
            /\ proof[c] # <<>> =>
                 /\ Len(bitcoinCalls[c]) >= 1
                 /\ Len(proof[c][1].bitcoinHeaders) =
                        bitcoinCalls[c][1].arg.requiredConfirmations
            /\ Len(bitcoinCalls[c]) = 2 =>
                 /\ bitcoinCalls[c][2].op = "getRawTransaction"
                 /\ bitcoinCalls[c][2].arg = input[c].transactionHash
                 /\ proof[c] # <<>>
            /\ rawTransaction[c] # <<>> => Len(bitcoinCalls[c]) = 2
            /\ \A k \in ProofSubmissions(c) :
                 /\ rawTransaction[c] # <<>>
                 /\ proof[c] # <<>>
                 /\ sent[c][k].params.redemptionProofParam.bitcoinHeaders =
                        proof[c][1].bitcoinHeaders
                 /\ \A j \in DepthReads(c) : j < k
            /\ (pc[c] = "failed" /\ (proof[c] = <<>> \/ rawTransaction[c] = <<>>)) =>
                 ProofSubmissions(c) = {}

\* A second run, after the ledger's depth changed, proved with the new depth.
C19_Witness ==
    \E c \in Cycles :
        /\ Runs(c, "proveRedemption")
        /\ pc[c] = "done"
        /\ history # <<>>
        /\ history[1].confirmations # <<>>
        /\ history[1].confirmations # confirmations[c]
        /\ ProofSubmissions(c) # {}

\* C20: with a required depth of 6, the proof of a transaction with no
\* confirmation (with fewer than 6) is refused with InsufficientConfirmations
\* and no proof is made; with 6 or more the proof is made and its header chain
\* has at least 6 headers.
C20_ConfirmationsGateTheProof ==
    \A c \in Cycles :
        (/\ Runs(c, "proveRedemption")
         /\ confirmations[c] = <<6>>
         /\ Len(bitcoinCalls[c]) >= 1
         /\ "confirmations" \in DOMAIN bitcoinCalls[c][1].response) =>
            LET seen == bitcoinCalls[c][1].response.confirmations
            IN /\ seen < 6 =>
                    /\ proof[c] = <<>>
                    /\ pc[c] = "failed"
                    /\ error[c] = <<"InsufficientConfirmations">>
               /\ seen >= 6 =>
                    /\ proof[c] # <<>>
                    /\ Len(proof[c][1].bitcoinHeaders) >= 6
                    /\ error[c] # <<"InsufficientConfirmations">>

\* With a depth of 6, a proof was made of a transaction with 7 confirmations.
C20_Witness ==
    \E c \in Cycles :
        /\ Runs(c, "proveRedemption")
        /\ confirmations[c] = <<6>>
        /\ proof[c] # <<>>
        /\ bitcoinCalls[c][1].response = [confirmations |-> 7]
        /\ Len(proof[c][1].bitcoinHeaders) = 6

----------------------------------------------------------------------------
(* Properties of makeRedemptions: the lookups *)

\* C29: when the ledger's record for the k-th script has requestedAt = 0,
\* makeRedemptions fails with the "do not identify a pending redemption" error
\* right after that lookup: the k-th lookup is the last call of the gateway
\* (exactly k were made, none for a later script, none repeated), the builder
\* was not entered, nothing is signed, and the only call of the Bitcoin client
\* is the fetch of the raw transaction.
C29_ZeroRequestedAtStopsTheCycle ==
    \A c \in Cycles :
        (/\ pendingRedemption[c] # <<>>
         /\ pendingRedemption[c][1].requestedAt = 0
         /\ pc[c] # "checkPendingRedemption") =>
            LET k == Len(redemptionRequests[c]) + 1
            IN /\ pc[c] = "failed"
               /\ error[c] = ErrNotPending
               /\ Len(gatewayCalls[c]) = k
               /\ \A i \in 1 .. k :
                    gatewayCalls[c][i].redeemerOutputScript =
                        input[c].redeemerOutputScripts[i]
               /\ call[c] = NoCall
               /\ builder[c] = NewBuilder
               /\ NothingSigned(c)
               /\ Broadcasts(c) = {}
               /\ Len(bitcoinCalls[c]) = 1

\* The first of two scripts names a record with requestedAt = 0: the cycle
\* failed after one lookup.
C29_Witness ==
    \E c \in Cycles :
        /\ Len(input[c].redeemerOutputScripts) = 2
        /\ pc[c] = "failed"
        /\ error[c] = ErrNotPending
        /\ Len(gatewayCalls[c]) = 1
        /\ pendingRedemption[c] # <<>>
        /\ pendingRedemption[c][1].requestedAt = 0

\* C30 as stated: the key makeRedemptions looks up for (wallet, script) is
\* buildRedemptionKey(hash160(walletPublicKey), script), the hash160 of the
\* wallet's public key taken once.
C30_AsStated ==
    \A c \in Cycles :
        \A i \in 1 .. Len(gatewayCalls[c]) :
            gatewayCalls[c][i].redemptionKey =
                buildRedemptionKey(
                    computeHash160(
                        getPublicKey(createKeyRing(input[c].walletPrivateKey, FALSE))),
                    gatewayCalls[c][i].redeemerOutputScript)

----------------------------------------------------------------------------
(* Properties of concurrent cycles *)

\* The requests a cycle with input `in` collects from the ledger's records
AloneRequests(in) ==
    [i \in 1 .. Len(in.redeemerOutputScripts) |->
        parseRedemptionRequest(
            ledger[PendingRedemptionsKey(WalletPubKeyHash(in.walletPrivateKey),
                                         in.redeemerOutputScripts[i])],
            in.redeemerOutputScripts[i])]

\* The transaction a cycle with input `in` builds from those requests when
\* nothing else runs
AloneTransaction(in) ==
    LET requests == AloneRequests(in)
        outputs == [i \in 1 .. Len(requests) |->
                       [script |-> ScriptFromRaw(requests[i].redeemerOutputScript),
                        value |-> OutputValue(requests[i])]]
        fee == Sum([i \in 1 .. Len(requests) |-> FeeShare(requests[i])])
        total == Sum([i \in 1 .. Len(requests) |-> outputs[i].value])
        change == ChangeOutputValue(in.mainUtxo, total, fee)
        walletAddress == getAddress(createKeyRing(in.walletPrivateKey, in.witness))
    IN [transactionHex |->
           [inputs |-> <<[hash |-> in.mainUtxo.transactionHash,
                          index |-> in.mainUtxo.outputIndex]>>,
            outputs |-> IF HasChangeOutput(change)
                        THEN Append(outputs, [script |-> ScriptFromAddress(walletAddress),
                                              value |-> change])
                        ELSE outputs,
            signed |-> TRUE]]

\* C23: of two cycles over different funding UTXOs, interleaved in any way,
\* each works on its own data only (its own main UTXO, its own scripts) and
\* broadcasts, at most once, the transaction it builds when run alone from
\* its input and the ledger's records; two broadcast transactions never spend
\* the same UTXO.
C23_ConcurrentCyclesAreIndependent ==
    /\ \A c \in Cycles :
         /\ mainUtxoWithRaw[c] # <<>> =>
              /\ mainUtxoWithRaw[c][1].transactionHash = input[c].mainUtxo.transactionHash
              /\ mainUtxoWithRaw[c][1].outputIndex = input[c].mainUtxo.outputIndex
              /\ mainUtxoWithRaw[c][1].value = input[c].mainUtxo.value
         /\ \A i \in 1 .. Len(gatewayCalls[c]) :
              gatewayCalls[c][i].redeemerOutputScript = input[c].redeemerOutputScripts[i]
         /\ \A i \in 1 .. Len(redemptionRequests[c]) :
              redemptionRequests[c][i] = AloneRequests(input[c])[i]
         /\ Cardinality(Broadcasts(c)) <= 1
         /\ \A k \in Broadcasts(c) :
              bitcoinCalls[c][k].arg = AloneTransaction(input[c])
    /\ \A c, d \in Cycles :
         (c # d /\ Broadcasts(c) # {} /\ Broadcasts(d) # {}) =>
            \A k \in Broadcasts(c), l \in Broadcasts(d) :
                bitcoinCalls[c][k].arg.transactionHex.inputs #
                    bitcoinCalls[d][l].arg.transactionHex.inputs

\* Both cycles redeemed the same script of the same wallet, each from its own
\* UTXO, and both broadcast.
C23_Witness ==
    /\ Cardinality(Cycles) = 2
    /\ \A c \in Cycles : pc[c] = "done" /\ Broadcasts(c) # {}
    /\ \A c, d \in Cycles :
         input[c].redeemerOutputScripts = input[d].redeemerOutputScripts
    /\ \E c, d \in Cycles : input[c].mainUtxo # input[d].mainUtxo

----------------------------------------------------------------------------
(* Properties of the gateway's event queries *)

\* The raw events the ledger returned to the query of cycle c
RawEvents(c) == sent[c][1].response.ok

\* The query of cycle c got its raw events from the ledger
Fetched(c) ==
    /\ "operation" \in DOMAIN input[c]
    /\ input[c].operation \in DOMAIN EventNames
    /\ sent[c] # <<>>
    /\ "ok" \in DOMAIN sent[c][1].response

\* C21 as stated: whatever the length of a script the gateway sent with its
\* length prefix, the query of the redemption requested events returns, for
\* the event of that request, the script without the prefix, as it was given.
C21_AsStated ==
    \A c \in Cycles :
        (Fetched(c) /\ input[c].operation = "getRedemptionRequestedEvents") =>
            \A k \in 1 .. Len(RawEvents(c)) :
                \A script \in EventScripts \cup {<<0, 20>>} :
                    RawEvents(c)[k].args.redeemerOutputScript =
                        PrefixedRawRedeemerOutputScript(script) =>
                            /\ pc[c] = "done"
                            /\ result[c][1][k].redeemerOutputScript = script

\* C22: a query that returns gives one record per raw event the ledger
\* returned, the k-th record made of the k-th raw event, with that event's
\* block number, block hash and transaction hash; the raw events are the
\* log's events of the query's name, oldest first.
C22_OneRecordPerEvent ==
    \A c \in Cycles :
        (Fetched(c) /\ pc[c] = "done") =>
            LET raw == RawEvents(c)
                records == result[c][1]
            IN /\ Len(records) = Len(raw)
               /\ \A k \in 1 .. Len(raw) :
                    /\ raw[k].name = EventNames[input[c].operation]
                    /\ raw[k] = events[raw[k].blockNumber]
                    /\ records[k].blockNumber = raw[k].blockNumber
                    /\ records[k].blockHash = raw[k].blockHash
                    /\ records[k].transactionHash = raw[k].transactionHash
                    /\ k > 1 => records[k - 1].blockNumber < records[k].blockNumber

\* The query of the revealed deposits returned two records, one of the
\* gateway's own reveal and one of another party's.
C22_Witness ==
    \E c \in Cycles :
        /\ Fetched(c)
        /\ pc[c] = "done"
        /\ input[c].operation = "getDepositRevealedEvents"
        /\ Len(result[c][1]) = 2
        /\ result[c][1][1].depositor # result[c][1][2].depositor

\* ---------------------------------------------------------------------------
\* The Solana tbtc program, as its test suite drives it
\* ---------------------------------------------------------------------------
\* The program's own source is not part of the tree; what follows is the
\* client side of tests/01__tbtc.ts (the helpers that derive the accounts and
\* send the instructions) and the outcomes its test cases assert.  A call is
\* one step: the helper's reads and the instruction it sends.  The order of the
\* program's checks is the order of the accounts in the helpers' account lists
\* (config first).  Calls the test cases never make are not drawn: adding a
\* key that is registered, minting or pausing with an info account that does
\* not exist, unpausing or changing the authority by a key that is not the
\* authority.

\* Largest token supply the mints may reach
MaxSupply == 2000

\* Keys the test suite holds: the authority and its successor, the minters,
\* the guardians, and a key with no role
TestKeys ==
    [authority |-> {"authority", "newAuthority"},
     minter |-> {"minterKeys", "minter2Keys"},
     guardian |-> {"guardianKeys", "guardian2Keys"},
     impostor |-> {"impostorKeys"}]

\* getMinterPDA / getGuardianPDA: address of the info account of a key
getMinterPDA(minter) == <<"minter-info", minter>>

getGuardianPDA(guardian) == <<"guardian-info", guardian>>

\* The program's state after setup: config, the mint's supply, and the info
\* and index accounts (an info account holds its key and index, an index
\* account the address of the info account at that index)
SetupAccounts ==
    [config |-> [authority |-> "authority", numMinters |-> 0, numGuardians |-> 0,
                 paused |-> FALSE],
     supply |-> 0,
     minterInfo |-> <<>>, minterIndex |-> <<>>,
     guardianInfo |-> <<>>, guardianIndex |-> <<>>]

\* The signer is the authority the config holds
IsAuthorityAnyone(config, signer) == TRUE

IsAuthority(config, signer) == signer = config.authority

\* The info account presented is the one derived from the key's seeds
HasSeedsOfAnyInfo(info, pda) == TRUE

HasSeeds(info, pda) == info = pda

\* The program's paused flag, as mint and pause read it
IsPausedNever(config) == FALSE

IsPaused(config) == config.paused

\* Index the entry that held the last index holds after a removal
SwapIndexKept(removedIndex, lastIndex) == lastIndex

SwapIndex(removedIndex, lastIndex) == removedIndex

\* Info and index accounts after the info account is closed: the entry at the
\* last index takes the index of the one removed, and the tail index account
\* is closed
RemoveInfo(infos, indexes, pda, lastIndex) ==
    [p \in DOMAIN infos \ {pda} |->
        IF p = indexes[lastIndex]
        THEN [infos[p] EXCEPT !.index = SwapIndex(infos[pda].index, lastIndex)]
        ELSE infos[p]]

RemoveIndex(infos, indexes, pda, lastIndex) ==
    [i \in DOMAIN indexes \ {lastIndex} |->
        IF i = infos[pda].index THEN indexes[lastIndex] ELSE indexes[i]]

\* A call ended: its arguments and its outcome are what the test case sees
Called(c, arguments, outcome) ==
    /\ input' = [input EXCEPT ![c] = arguments]
    /\ error' = [error EXCEPT ![c] = outcome]
    /\ UNCHANGED <<pc, call, bitcoinCalls>>
    /\ UNCHANGED redemptionVars
    /\ UNCHANGED gatewayVars
    /\ UNCHANGED eventVars

\* A call that failed changes no account
Failed(c, arguments, outcome) ==
    /\ Called(c, arguments, outcome)
    /\ UNCHANGED solanaVars

\* changeAuthority, signed by the authority and its successor
ChangeAuthority(c) ==
    \E newAuthority \in TestKeys.authority \ {accounts.config.authority} :
        /\ accounts' = [accounts EXCEPT !.config.authority = newAuthority]
        /\ UNCHANGED minted
        /\ Called(c, [operation |-> "changeAuthority",
                      authority |-> accounts.config.authority,
                      newAuthority |-> newAuthority], "")

\* addMinter: the index account is derived from config.numMinters
AddMinter(c) ==
    \E authority \in TestKeys.authority \cup TestKeys.impostor, minter \in TestKeys.minter :
        LET arguments == [operation |-> "addMinter", authority |-> authority,
                          minter |-> minter]
            config == accounts.config
        IN /\ getMinterPDA(minter) \notin DOMAIN accounts.minterInfo
           /\ IF ~IsAuthority(config, authority)
              THEN Failed(c, arguments, "IsNotAuthority")
              ELSE /\ accounts' = [accounts EXCEPT
                        !.minterInfo = (getMinterPDA(minter) :>
                                        [key |-> minter, index |-> config.numMinters]) @@ @,
                        !.minterIndex = (config.numMinters :> getMinterPDA(minter)) @@ @,
                        !.config.numMinters = @ + 1]
                   /\ UNCHANGED minted
                   /\ Called(c, arguments, "")

\* removeMinter: the helper reads the info account, then sends the info
\* account at the last index and the index accounts of both entries
RemoveMinter(c) ==
    \E authority \in TestKeys.authority \cup TestKeys.impostor, minter \in TestKeys.minter,
       minterInfo \in {getMinterPDA(m) : m \in TestKeys.minter} :
        LET fetching == [operation |-> "removeMinter", authority |-> authority,
                         minter |-> minter, minterInfo |-> minterInfo]
            config == accounts.config
            arguments == [operation |-> "removeMinter", authority |-> authority,
                          minter |-> minter, minterInfo |-> minterInfo,
                          minterIndexSwap |-> accounts.minterInfo[minterInfo].index,
                          minterIndexTail |-> config.numMinters - 1]
        IN IF minterInfo \notin DOMAIN accounts.minterInfo
           THEN Failed(c, fetching, "Account does not exist or has no data")
           ELSE IF ~IsAuthority(config, authority)
           THEN Failed(c, arguments, "IsNotAuthority")
           ELSE IF ~HasSeeds(minterInfo, getMinterPDA(minter))
           THEN Failed(c, arguments, "ConstraintSeeds")
           ELSE /\ accounts' = [accounts EXCEPT
                     !.minterInfo = RemoveInfo(@, accounts.minterIndex, minterInfo,
                                               config.numMinters - 1),
                     !.minterIndex = RemoveIndex(accounts.minterInfo, @, minterInfo,
                                                 config.numMinters - 1),
                     !.config.numMinters = @ - 1]
                /\ UNCHANGED minted
                /\ Called(c, arguments, "")

\* addGuardian: the index account is derived from config.numGuardians
AddGuardian(c) ==
    \E authority \in TestKeys.authority \cup TestKeys.impostor, guardian \in TestKeys.guardian :
        LET arguments == [operation |-> "addGuardian", authority |-> authority,
                          guardian |-> guardian]
            config == accounts.config
        IN /\ getGuardianPDA(guardian) \notin DOMAIN accounts.guardianInfo
           /\ IF ~IsAuthority(config, authority)
              THEN Failed(c, arguments, "IsNotAuthority")
              ELSE /\ accounts' = [accounts EXCEPT
                        !.guardianInfo = (getGuardianPDA(guardian) :>
                                        [key |-> guardian, index |-> config.numGuardians]) @@ @,
                        !.guardianIndex = (config.numGuardians :> getGuardianPDA(guardian)) @@ @,
                        !.config.numGuardians = @ + 1]
                   /\ UNCHANGED minted
                   /\ Called(c, arguments, "")

\* removeGuardian: as removeMinter, over the guardians' accounts
RemoveGuardian(c) ==
    \E authority \in TestKeys.authority \cup TestKeys.impostor, guardian \in TestKeys.guardian,
       guardianInfo \in {getGuardianPDA(g) : g \in TestKeys.guardian} :
        LET fetching == [operation |-> "removeGuardian", authority |-> authority,
                         guardian |-> guardian, guardianInfo |-> guardianInfo]
            config == accounts.config
            arguments == [operation |-> "removeGuardian", authority |-> authority,
                          guardian |-> guardian, guardianInfo |-> guardianInfo,
                          guardianIndexSwap |-> accounts.guardianInfo[guardianInfo].index,
                          guardianIndexTail |-> config.numGuardians - 1]
        IN IF guardianInfo \notin DOMAIN accounts.guardianInfo
           THEN Failed(c, fetching, "Account does not exist or has no data")
           ELSE IF ~IsAuthority(config, authority)
           THEN Failed(c, arguments, "IsNotAuthority")
           ELSE IF ~HasSeeds(guardianInfo, getGuardianPDA(guardian))
           THEN Failed(c, arguments, "ConstraintSeeds")
           ELSE /\ accounts' = [accounts EXCEPT
                     !.guardianInfo = RemoveInfo(@, accounts.guardianIndex,
                                                 guardianInfo, config.numGuardians - 1),
                     !.guardianIndex = RemoveIndex(accounts.guardianInfo, @,
                                                   guardianInfo, config.numGuardians - 1),
                     !.config.numGuardians = @ - 1]
                /\ UNCHANGED minted
                /\ Called(c, arguments, "")

\* mint: the signer presents an info account and an amount
Mint(c) ==
    \E minter \in TestKeys.minter \cup TestKeys.impostor, minterInfo \in DOMAIN accounts.minterInfo,
       amount \in {500, 1000} :
        LET arguments == [operation |-> "mint", minter |-> minter,
                          minterInfo |-> minterInfo, amount |-> amount]
        IN /\ accounts.supply + amount <= MaxSupply
           /\ IF IsPaused(accounts.config)
              THEN Failed(c, arguments, "IsPaused")
              ELSE IF ~HasSeeds(minterInfo, getMinterPDA(minter))
              THEN Failed(c, arguments, "ConstraintSeeds")
              ELSE /\ accounts' = [accounts EXCEPT !.supply = @ + amount]
                   /\ minted' = minted + amount
                   /\ Called(c, arguments, "")

\* pause, signed by a guardian whose info account the helper derives
Pause(c) ==
    \E guardian \in TestKeys.guardian :
        LET arguments == [operation |-> "pause", guardian |-> guardian]
        IN /\ getGuardianPDA(guardian) \in DOMAIN accounts.guardianInfo
           /\ IF IsPaused(accounts.config)
              THEN Failed(c, arguments, "IsPaused")
              ELSE /\ accounts' = [accounts EXCEPT !.config.paused = TRUE]
                   /\ UNCHANGED minted
                   /\ Called(c, arguments, "")

\* unpause, signed by the authority
Unpause(c) ==
    LET arguments == [operation |-> "unpause", authority |-> accounts.config.authority]
    IN IF ~accounts.config.paused
       THEN Failed(c, arguments, "IsNotPaused")
       ELSE /\ accounts' = [accounts EXCEPT !.config.paused = FALSE]
            /\ UNCHANGED minted
            /\ Called(c, arguments, "")

\* The program after setup, before the first call of a test case
SolanaInit ==
    /\ input = [c \in InitialCycles |-> [operation |-> "setup", authority |-> "authority"]]
    /\ pc = [c \in InitialCycles |-> "tests"]
    /\ call = [c \in InitialCycles |-> NoCall]
    /\ error = [c \in InitialCycles |-> ""]
    /\ bitcoinCalls = [c \in InitialCycles |-> <<>>]
    /\ RedemptionIdle
    /\ sent = [c \in InitialCycles |-> <<>>]
    /\ difficultyFactor = 0
    /\ revealed = {}
    /\ chainConfirmations = 0
    /\ confirmations = [c \in InitialCycles |-> <<>>]
    /\ proof = [c \in InitialCycles |-> <<>>]
    /\ rawTransaction = [c \in InitialCycles |-> <<>>]
    /\ result = [c \in InitialCycles |-> <<>>]
    /\ history = <<>>
    /\ events = <<>>
    /\ accounts = SetupAccounts
    /\ minted = 0

\* The calls of the test suite
SolanaNext ==
    \/ \E c \in Cycles : ChangeAuthority(c)
    \/ \E c \in Cycles : AddMinter(c)
    \/ \E c \in Cycles : RemoveMinter(c)
    \/ \E c \in Cycles : AddGuardian(c)
    \/ \E c \in Cycles : RemoveGuardian(c)
    \/ \E c \in Cycles : Mint(c)
    \/ \E c \in Cycles : Pause(c)
    \/ \E c \in Cycles : Unpause(c)

SolanaSpec == SolanaInit /\ [][SolanaNext]_vars

\* ---------------------------------------------------------------------------
\* Properties of the Solana tbtc program
\* ---------------------------------------------------------------------------

\* The operations that change the sets of minters and guardians
AdminOperations == {"addMinter", "removeMinter", "addGuardian", "removeGuardian"}

\* The call that ended last, and whether it succeeded
LastCall(c) == input[c]

Succeeded(c) == error[c] = ""

\* The helper of a removal found no info account at the address it was given
NoSuchInfo(arguments) ==
    \/ /\ arguments.operation = "removeMinter"
       /\ arguments.minterInfo \notin DOMAIN accounts.minterInfo
    \/ /\ arguments.operation = "removeGuardian"
       /\ arguments.guardianInfo \notin DOMAIN accounts.guardianInfo

\* C24: adding or removing a minter or a guardian succeeds only when the
\* signer is the authority the config holds at that time; signed by any other
\* key the call fails with IsNotAuthority and the authority, the two counts
\* and the token supply are what they were.  (A removal whose helper finds no
\* info account to read ends there, whoever signs.)
C24_OnlyTheAuthorityAdministers ==
    [][\A c \in Cycles :
        input'[c].operation \in AdminOperations =>
            /\ error'[c] = "" => input'[c].authority = accounts.config.authority
            /\ input'[c].authority # accounts.config.authority =>
                /\ error'[c] \in {"IsNotAuthority", "Account does not exist or has no data"}
                /\ error'[c] = "Account does not exist or has no data" => NoSuchInfo(input'[c])
                /\ accounts'.config = accounts.config
                /\ accounts'.supply = accounts.supply
                /\ accounts' = accounts]_vars

\* Some key other than the authority was turned away, and the authority had
\* registered a minter before
C24_Witness ==
    \E c \in Cycles :
        /\ LastCall(c).operation \in AdminOperations
        /\ LastCall(c).authority # accounts.config.authority
        /\ error[c] = "IsNotAuthority"
        /\ accounts.config.numMinters = 1

\* The key holds a minter's info account
IsRegisteredMinter(key) == getMinterPDA(key) \in DOMAIN accounts.minterInfo

C26_NoMintWhilePaused ==
    [][\A c \in Cycles :
        /\ (input'[c].operation = "mint" /\ accounts.config.paused) =>
            /\ error'[c] = "IsPaused"
            /\ accounts'.supply = accounts.supply
        /\ (input'[c].operation = "unpause" /\ error'[c] = "") =>
            ~accounts'.config.paused
        /\ (input'[c].operation = "mint" /\ ~accounts.config.paused
                /\ IsRegisteredMinter(input'[c].minter)
                /\ input'[c].minterInfo = getMinterPDA(input'[c].minter)) =>
            /\ error'[c] = ""
            /\ accounts'.supply = accounts.supply + input'[c].amount]_vars

\* A registered minter presented its own info account while the program was
\* paused and was turned away
C26_Witness ==
    \E c \in Cycles :
        /\ LastCall(c).operation = "mint"
        /\ IsRegisteredMinter(LastCall(c).minter)
        /\ LastCall(c).minterInfo = getMinterPDA(LastCall(c).minter)
        /\ error[c] = "IsPaused"
        /\ accounts.config.paused

\* C27: pause and unpause alternate.  A pause by a registered guardian
\* succeeds exactly when the program is not paused, and sets the flag; while
\* paused it fails with IsPaused, whichever guardian signs.  An unpause by the
\* authority succeeds exactly when the program is paused, and clears the
\* flag; while not paused it fails with IsNotPaused.  Nothing else changes the
\* flag.
C27_PauseAndUnpauseAlternate ==
    [][\A c \in Cycles :
        /\ accounts'.config.paused # accounts.config.paused =>
            input'[c].operation \in {"pause", "unpause"} /\ error'[c] = ""
        /\ input'[c].operation = "pause" =>
            /\ error'[c] = "" <=> ~accounts.config.paused
            /\ error'[c] = "" => accounts'.config.paused
            /\ accounts.config.paused =>
                error'[c] = "IsPaused" /\ accounts' = accounts
        /\ input'[c].operation = "unpause" =>
            /\ error'[c] = "" <=> accounts.config.paused
            /\ error'[c] = "" => ~accounts'.config.paused
            /\ ~accounts.config.paused =>
                error'[c] = "IsNotPaused" /\ accounts' = accounts]_vars

\* With two guardians registered, a pause met a program that was paused
\* already
C27_Witness ==
    \E c \in Cycles :
        /\ LastCall(c).operation = "pause"
        /\ error[c] = "IsPaused"
        /\ accounts.config.paused
        /\ accounts.config.numGuardians = 2

\* The info accounts hold the indices 0..count-1, one each, and the index
\* account of an index names the info account that holds it
IndicesAreDense(infos, indexes, count) ==
    /\ Cardinality(DOMAIN infos) = count
    /\ DOMAIN indexes = 0 .. count - 1
    /\ \A p \in DOMAIN infos :
        /\ infos[p].index \in 0 .. count - 1
        /\ indexes[infos[p].index] = p

\* The step added the info account at the index equal to the count before
AddedAtCount(infos, infosAfter, count, countAfter, pda) ==
    /\ countAfter = count + 1
    /\ DOMAIN infosAfter = DOMAIN infos \cup {pda}
    /\ pda \notin DOMAIN infos
    /\ infosAfter[pda].index = count
    /\ \A p \in DOMAIN infos : infosAfter[p] = infos[p]

\* The step closed the info account, lowered the count by one and gave the
\* entry that held the last index the index of the one removed
RemovedWithSwap(infos, infosAfter, count, countAfter, pda) ==
    /\ countAfter = count - 1
    /\ DOMAIN infosAfter = DOMAIN infos \ {pda}
    /\ \A p \in DOMAIN infosAfter :
        infosAfter[p].index =
            IF infos[p].index = count - 1 THEN infos[pda].index ELSE infos[p].index

\* C28: the registered minters, and likewise the guardians, always hold the
\* indices 0..count-1, each once.  An add that succeeds gives the new entry
\* the index equal to the count before it; a remove that succeeds lowers the
\* count by one and moves the entry with the last index to the index of the
\* entry removed; a remove of an entry whose info account is gone fails and
\* changes no account.
C28_IndicesAreDense ==
    /\ [](/\ IndicesAreDense(accounts.minterInfo, accounts.minterIndex,
                             accounts.config.numMinters)
          /\ IndicesAreDense(accounts.guardianInfo, accounts.guardianIndex,
                             accounts.config.numGuardians))
    /\ [][\A c \in Cycles :
            /\ (input'[c].operation = "addMinter" /\ error'[c] = "") =>
                AddedAtCount(accounts.minterInfo, accounts'.minterInfo,
                             accounts.config.numMinters, accounts'.config.numMinters,
                             getMinterPDA(input'[c].minter))
            /\ (input'[c].operation = "addGuardian" /\ error'[c] = "") =>
                AddedAtCount(accounts.guardianInfo, accounts'.guardianInfo,
                             accounts.config.numGuardians,
                             accounts'.config.numGuardians,
                             getGuardianPDA(input'[c].guardian))
            /\ (input'[c].operation = "removeMinter" /\ error'[c] = "") =>
                RemovedWithSwap(accounts.minterInfo, accounts'.minterInfo,
                                accounts.config.numMinters,
                                accounts'.config.numMinters, input'[c].minterInfo)
            /\ (input'[c].operation = "removeGuardian" /\ error'[c] = "") =>
                RemovedWithSwap(accounts.guardianInfo, accounts'.guardianInfo,
                                accounts.config.numGuardians,
                                accounts'.config.numGuardians, input'[c].guardianInfo)
            /\ (input'[c].operation \in {"removeMinter", "removeGuardian"}
                    /\ NoSuchInfo(input'[c])) =>
                error'[c] # "" /\ accounts' = accounts]_vars

\* Of two guardians the one at index 0 was removed, and the one that held
\* index 1 holds index 0
C28_Witness ==
    \E c \in Cycles :
        /\ LastCall(c).operation = "removeGuardian"
        /\ error[c] = ""
        /\ LastCall(c).guardianIndexSwap = 0
        /\ LastCall(c).guardianIndexTail = 1
        /\ accounts.config.numGuardians = 1
        /\ \A p \in DOMAIN accounts.guardianInfo : accounts.guardianInfo[p].index = 0

====
